---- MODULE Spec2Model ----
(***************************************************************************)
(* Queue engine, workers and rate limiter of the discord-bot repository.   *)
(*                                                                         *)
(* The repository holds four queue implementations, one collection each:   *)
(*   "BLP"         BlpQueueItem    (db/blp_queue.rs, workers/blp/)         *)
(*   "REMBG_QUEUE" RembgQueueItem  (db/rembg_queue.rs, rembg_processor.rs) *)
(*   "REMBG"       JobRembg        (workers/rembg/processor.rs)            *)
(*   "ICON"        JobIcon         (workers/icon/processor.rs)             *)
(* A behaviour of Spec follows one of them: `pool` is chosen in Init and   *)
(* never changes, since the collections are disjoint and no operation of   *)
(* one pool touches another pool's collection.                             *)
(*                                                                         *)
(* Time is kept relative to the current instant: a timestamp is stored as  *)
(* its age in ticks (now - t), saturating one tick above the sweep         *)
(* timeout, so that the clock can run forever in a finite model.           *)
(***************************************************************************)
EXTENDS Integers, Sequences, FiniteSets, TLC

\* ------------------------------------------------------------------ bounds
MaxJobs == 2
NumWorkers == 2
\* the sweep timeout in ticks (reset_stuck_items takes it as a parameter)
SweepTimeout == 2
\* tasks calling acquire() concurrently
NumTasks == 2
\* the last instant of the limiter's clock, in ticks of one second
MaxClock == 2
\* requests_per_second given to RateLimiter::new (40 by default, scaled down)
RequestsPerSecond == 2
\* the gateway's sequence numbers are 1..MaxSeq
MaxSeq == 2
\* concurrent callers of notify_workers
NumCallers == 2
\* the largest limit given to set_max_workers
MaxLimit == 2
\* the most jobs waiting to be claimed at once
MaxQueued == 2
\* the most attachments of one job
MaxAttachments == 3
\* the most tokens after the verb of a command
MaxFlags == 2
MaxDownloads == 5
MaxBeats == 3
MaxWords == 3

\* --------------------------------------------------------------- constants
MAX_RETRIES == 3
\* the argument of download_all in the REMBG and ICON processors
DownloadConcurrency == 4

Pools == {"BLP", "REMBG_QUEUE", "REMBG", "ICON"}
Workers == 1..NumWorkers
NoWorker == 0
NoJob == 0
Unset == -1
MaxAge == SweepTimeout + 1

VARIABLES
    pool,        \* the queue implementation this behaviour follows
    jobs,        \* the pool's collection: a sequence of job documents
    wpc,         \* each worker's position in worker_loop/process_queue_item
    wjob,        \* the id of the job a worker holds (NoJob if none)
    claims,      \* history: claims that returned job i since it last became pending
    claimedAgo,  \* history: age of the last claim of job i (Unset if never claimed)
    lastClaim,   \* history: what the most recent successful claim saw and returned
    lastSweep,   \* history: the stuck jobs seen by a sweep that has just run
    tokens,      \* RateLimiter.tokens
    last_refill, \* RateLimiter.last_refill
    clock,       \* the monotonic clock read by Instant::now()
    tpc,         \* each task's position in RateLimiter::acquire
    tnow,        \* each task's local `now`
    granted,     \* history: granted[t] = acquire() calls that returned at instant t
    apc,         \* each REST caller's operation and its position in it
    acquired,    \* history: the caller's acquire() returned since its last HTTP send
    lastSend,    \* history: the most recent HTTP send and whether an acquire preceded it
    gpc,         \* the gateway task's position ("exited": the process is not running)
    gloop,       \* the loop of run_gateway the current frame was read in
    frame,       \* the inbound frame being handled
    session_id,  \* BotStateInner.session_id
    sequence,    \* BotStateInner.sequence
    bot_state,   \* the persisted DiscordState document "bot_state"
    hello,       \* the server has sent hello on this connection
    lastEvent,   \* the event type last appended to the session-event log
    ended,       \* how the last run of run_gateway ended
    lastOut,     \* history: the outbound frame the gateway has just sent
    lastDone,    \* history: the frame whose handling has just finished
    opened,      \* history: session-opening frames sent on this connection
    lastS,       \* history: the last sequence number received on this connection
    pool_exists, \* the pool's entry exists in POOLS
    workers,     \* Pool.workers
    max_workers, \* Pool.max_workers
    permit,      \* Pool.notify holds a stored permit
    npc,         \* each notify_workers caller's position
    nlimit,      \* each caller's local `limit`
    ncur,        \* each caller's local `cur`
    task,        \* each worker task's position in worker_loop ("none": not spawned)
    queued,      \* jobs process_queue_item can still claim
    spawned,     \* history: tasks spawned by the caller's current call
    woken,       \* history: waiters woken by the caller's current call
    raced,       \* history: the caller's current call lost a compare_exchange
    resized,     \* history: set_max_workers has been called
    lowered,     \* history: set_max_workers has lowered max_workers
    att,         \* the attachments of the job a processor has claimed
    outcome,     \* what happens to each attachment: "ok", "download" or "codec" error
    work,        \* the attachment list the processor's loop runs over
    products,    \* the processor's converted_files / results, one per attachment
    ppc,         \* the processor's position in process_queue_item
    pjob,        \* the claimed job's document
    returned,    \* what process_queue_item / process_attachments returned
    sent,        \* the result message has been sent
    router,      \* which handle_message receives the mention
    content,     \* Message.content, as its whitespace-separated tokens
    attached,    \* the message has attachments
    available,   \* REMBG_AVAILABLE
    args,        \* what parse_command_args returned
    mpc,         \* the handler's position
    handler,     \* the submit function the router called
    events,      \* history: what the submit did, in order
    inserted,    \* the job documents the submit inserted
    metas,       \* download_all: `self`, the attachments to download
    ordered,     \* download_all: the futures of the FuturesOrdered, in push order
    sem,         \* download_all: the free permits of the semaphore
    out,         \* download_all: the records collected so far
    dpc,         \* download_all: "pushing", "collecting" or "returned"
    bpending,    \* BLP pool: the number of claimable documents
    bworker,     \* BLP pool: each worker's position in worker_loop
    bsubmit,     \* BLP pool: the submit handler's position
    bwoken,      \* BLP pool, history: the workers the last notify_waiters() woke
    polled,      \* the worker tasks whose async block has started (their WorkerSlot exists)
    shutdown,    \* the runtime is shutting down
    mem,         \* BotStateInner: session_id, sequence and bot_user_id in memory
    stored,      \* the persisted DiscordState document with all its fields
    spc,         \* session state: "down", "up" or "ready" (inside the READY handler)
    readyEvent,  \* session state: the READY payload being handled / handled last
    rate,        \* the rate the RateLimiter was built with by init_bot_state
    configured,  \* history: the rate_limit an operator has written to the document
    hseq,        \* heartbeat loop: BotStateInner.sequence
    hcount,      \* heartbeat loop: the persisted Heartbeat.count
    hsent,       \* heartbeat loop, history: heartbeats sent
    hlast,       \* heartbeat loop, history: the payload of the last heartbeat sent
    hrecv,       \* heartbeat loop, history: `s` of the last inbound frame that had one
    hpc,         \* heartbeat loop: "select", "log" or "ended"
    crashed,     \* queue: the process has crashed and has been started again
    cmsg,        \* MESSAGE_CREATE: the message of the event
    crouter,     \* MESSAGE_CREATE: which handle_message receives it
    cpc,         \* MESSAGE_CREATE: "received" or "handled"
    ceffects,    \* MESSAGE_CREATE: what the handler did (reply, insert, notify)
    lrHolder,    \* RateLimiter.last_refill (a Mutex): the task that holds it (NoTask if free)
    tokHolder    \* RateLimiter.tokens (a Mutex): the task that holds it (NoTask if free)

queueVars == <<pool, jobs, wpc, wjob, claims, claimedAgo, lastClaim, lastSweep>>
limiterVars == <<tokens, last_refill, clock, tpc, tnow, granted>>
apiVars == <<apc, acquired, lastSend>>
gatewayVars == <<gpc, gloop, frame, session_id, sequence, bot_state, hello,
                 lastEvent, ended, lastOut, lastDone, opened, lastS>>
supervisorVars == <<pool_exists, workers, max_workers, permit, npc, nlimit, ncur, task,
                    queued, spawned, woken, raced, resized, lowered>>
processorVars == <<att, outcome, work, products, ppc, pjob, returned, sent>>
messageVars == <<router, content, attached, available, args, mpc, handler, events, inserted>>
downloadVars == <<metas, ordered, sem, out, dpc>>
blpPoolVars == <<bpending, bworker, bsubmit, bwoken>>
runtimeVars == <<polled, shutdown>>
stateVars == <<mem, stored, spc, readyEvent, rate, configured>>
heartbeatVars == <<hseq, hcount, hsent, hlast, hrecv, hpc>>
crashVars == <<crashed>>
createVars == <<cmsg, crouter, cpc, ceffects>>
lockVars == <<lrHolder, tokHolder>>
\* the session document, the heartbeat counter, the restart and MESSAGE_CREATE
lastVars == <<stateVars, heartbeatVars, crashVars, createVars, lockVars>>
\* the components added after the attachment processor
laterVars == <<messageVars, downloadVars, blpPoolVars, runtimeVars, lastVars>>
\* everything but the message handler, everything but download_all
\* (and so on for the BLP pool and for the supervisor with its runtime)
notMessageVars == <<queueVars, limiterVars, apiVars, gatewayVars, supervisorVars, processorVars,
                    downloadVars, blpPoolVars, runtimeVars, lastVars>>
notDownloadVars == <<queueVars, limiterVars, apiVars, gatewayVars, supervisorVars, processorVars,
                     messageVars, blpPoolVars, runtimeVars, lastVars>>
notBlpPoolVars == <<queueVars, limiterVars, apiVars, gatewayVars, supervisorVars, processorVars,
                    messageVars, downloadVars, runtimeVars, lastVars>>
notSupervisorVars == <<queueVars, limiterVars, apiVars, gatewayVars, processorVars,
                       messageVars, downloadVars, blpPoolVars, lastVars>>
\* the components every later one leaves alone
baseVars == <<queueVars, limiterVars, apiVars, gatewayVars, supervisorVars, processorVars,
              messageVars, downloadVars, blpPoolVars, runtimeVars>>
\* the same without the queue
baseVarsButQueue == <<limiterVars, apiVars, gatewayVars, supervisorVars, processorVars,
                      messageVars, downloadVars, blpPoolVars, runtimeVars>>
notStateVars == <<baseVars, heartbeatVars, crashVars, createVars, lockVars>>
notHeartbeatVars == <<baseVars, stateVars, crashVars, createVars, lockVars>>
notCreateVars == <<baseVars, stateVars, heartbeatVars, crashVars, lockVars>>
\* the state of the components the queue and the limiter never touch
auxVars == <<apiVars, gatewayVars, supervisorVars, processorVars, laterVars>>
vars == <<pool, jobs, wpc, wjob, claims, claimedAgo, lastClaim, lastSweep,
          tokens, last_refill, clock, tpc, tnow, granted, apc, acquired, lastSend,
          gpc, gloop, frame, session_id, sequence, bot_state, hello,
          lastEvent, ended, lastOut, lastDone, opened, lastS,
          pool_exists, workers, max_workers, permit, npc, nlimit, ncur, task,
          queued, spawned, woken, raced, resized, lowered,
          att, outcome, work, products, ppc, pjob, returned, sent,
          router, content, attached, available, args, mpc, handler, events, inserted,
          metas, ordered, sem, out, dpc,
          bpending, bworker, bsubmit, bwoken, polled, shutdown,
          mem, stored, spc, readyEvent, rate, configured,
          hseq, hcount, hsent, hlast, hrecv, hpc, crashed, cmsg, crouter, cpc, ceffects,
          lrHolder, tokHolder>>

\* ------------------------------------------------------------ job documents
Ids(js) == 1..Len(js)

\* QueueStatus
Pending == "pending"
Processing == "processing"
Completed == "completed"
Failed == "failed"

\* BlpQueueItem::new: pending, no worker, retry_count 0, status message known
BlpQueueItem_new(created) ==
    [status |-> Pending, retry |-> 0, worker_id |-> NoWorker, created |-> created,
     started_at |-> Unset, completed |-> FALSE, error |-> FALSE,
     reply |-> TRUE, attachments |-> TRUE]

\* RembgQueueItem::new
RembgQueueItem_new(created) ==
    [status |-> Pending, retry |-> 0, worker_id |-> NoWorker, created |-> created,
     started_at |-> Unset, completed |-> FALSE, error |-> FALSE,
     reply |-> TRUE, attachments |-> TRUE]

\* JobRembg { message, created, ..Default::default() }
JobRembg_new(created, attachments) ==
    [status |-> Pending, retry |-> 0, worker_id |-> NoWorker, created |-> created,
     started_at |-> Unset, completed |-> FALSE, error |-> FALSE,
     reply |-> FALSE, attachments |-> attachments]

\* JobIcon { message, zip: true, created, ..Default::default() }
JobIcon_new(created, attachments) ==
    [status |-> Pending, retry |-> 0, worker_id |-> NoWorker, created |-> created,
     started_at |-> Unset, completed |-> FALSE, error |-> FALSE,
     reply |-> FALSE, attachments |-> attachments]

\* sort { created: 1 } of find_one_and_update: the first document in that order
\* (any of them when several share the smallest timestamp)
SortCreatedAsc(js, S) == {i \in S : \A k \in S : js[i].created <= js[k].created}

\* ------------------------------------------------------- BlpQueueItem store
\* claim_next as it would be with the retry bound left out of the filter
Blp_claim_filter_any_retry(js) ==
    {i \in Ids(js) : js[i].status = Pending}

\* the filter of claim_next: { status: "pending", retry_count: { $lt: MAX_RETRIES } }
Blp_claim_filter(js) ==
    {i \in Ids(js) : js[i].status = Pending /\ js[i].retry < MAX_RETRIES}

\* the documents claim_next may return: the filter, then .sort({ created_at: 1 })
Blp_claim_next(js) == SortCreatedAsc(js, Blp_claim_filter(js))

\* the $set of claim_next on the chosen document
Blp_claim_update(js, i, worker_id) ==
    [js EXCEPT ![i].status = Processing, ![i].worker_id = worker_id, ![i].started_at = 0]

\* mark_completed as it would be if it counted a retry, as mark_failed does
Blp_mark_completed_inc(js, i) ==
    [js EXCEPT ![i].status = Completed, ![i].completed = TRUE, ![i].retry = @ + 1]

\* mark_completed: update_one({ _id }, { $set: { status, completed_at } })
Blp_mark_completed(js, i) ==
    [js EXCEPT ![i].status = Completed, ![i].completed = TRUE]

\* mark_failed: update_one({ _id }, { $set: { status, error, completed_at }, $inc: { retry_count: 1 } })
Blp_mark_failed(js, i) ==
    [js EXCEPT ![i].status = Failed, ![i].error = TRUE, ![i].completed = TRUE,
               ![i].retry = @ + 1]

\* a filter that ignores started_at: { status: "processing" }
Blp_stuck_filter_any_age(js, timeout) ==
    {i \in Ids(js) : js[i].status = Processing}

\* the filter of reset_stuck_items: { status: "processing", started_at: { $lt: now - timeout } }
\* ($lt matches no document whose started_at is missing)
Blp_stuck_filter(js, timeout) ==
    {i \in Ids(js) : js[i].status = Processing /\ js[i].started_at # Unset
                     /\ js[i].started_at > timeout}

\* reset_stuck_items as it would be without the $inc
Blp_reset_stuck_items_no_inc(js, timeout) ==
    [i \in Ids(js) |->
        IF js[i].status = Processing /\ js[i].started_at # Unset
           /\ js[i].started_at > timeout
        THEN [js[i] EXCEPT !.status = Pending, !.worker_id = NoWorker]
        ELSE js[i]]

\* reset_stuck_items: update_many(filter, { $set: { status: "pending", worker_id: null }, $inc: { retry_count: 1 } })
Blp_reset_stuck_items(js, timeout) ==
    [i \in Ids(js) |->
        IF i \in Blp_stuck_filter(js, timeout)
        THEN [js[i] EXCEPT !.status = Pending, !.worker_id = NoWorker, !.retry = @ + 1]
        ELSE js[i]]

\* its return value: Ok(result.modified_count); every document the filter
\* matches is modified (its status changes)
Blp_reset_stuck_items_count(js, timeout) == Cardinality(Blp_stuck_filter(js, timeout))

\* ----------------------------------------------------- RembgQueueItem store
\* the filter of get_next_pending
Rembg_pending_filter(js) ==
    {i \in Ids(js) : js[i].status = Pending /\ js[i].retry < MAX_RETRIES}

\* the documents get_next_pending may return: the filter alone, the options set
\* no sort, so the store is free to return any matching document
Rembg_get_next_pending(js) == Rembg_pending_filter(js)

\* the $set of get_next_pending
Rembg_pending_update(js, i, worker_id) ==
    [js EXCEPT ![i].status = Processing, ![i].worker_id = worker_id, ![i].started_at = 0]

\* RembgQueueItem::mark_completed
Rembg_mark_completed(js, i) ==
    [js EXCEPT ![i].status = Completed, ![i].completed = TRUE]

\* RembgQueueItem::mark_failed
Rembg_mark_failed(js, i) ==
    [js EXCEPT ![i].status = Failed, ![i].error = TRUE, ![i].completed = TRUE,
               ![i].retry = @ + 1]

\* ------------------------------------- JobRembg / JobIcon (TaskProcessor pools)
\* a claim whose filter leaves the status out
JobRembg_claim_any_status(js) ==
    SortCreatedAsc(js, {i \in Ids(js) : js[i].retry < MAX_RETRIES})

\* RembgProcessor::process_queue_item, the find_one_and_update filter and sort
JobRembg_claim(js) ==
    SortCreatedAsc(js, {i \in Ids(js) : js[i].status = Pending /\ js[i].retry < MAX_RETRIES})

\* its $set: { status: "processing" } and nothing else
JobRembg_claim_update(js, i, worker_id) ==
    [js EXCEPT ![i].status = Processing]

\* IconProcessor::process_queue_item, the find_one_and_update filter and sort
JobIcon_claim(js) ==
    SortCreatedAsc(js, {i \in Ids(js) : js[i].status = Pending /\ js[i].retry < MAX_RETRIES})

\* the claim as it would be if it read the document without updating it
JobIcon_claim_no_update(js, i, worker_id) == js

\* its $set: { status: "processing" } and nothing else
JobIcon_claim_update(js, i, worker_id) ==
    [js EXCEPT ![i].status = Processing]

\* the status-message step, no attachments: $set { reply, status: "completed" }
Job_reply_completed(js, i) ==
    [js EXCEPT ![i].reply = TRUE, ![i].status = Completed]

\* a status-message step that forgets the reply: $set { status: "pending" }
Job_reply_pending_no_reply(js, i) ==
    [js EXCEPT ![i].status = Pending]

\* the status-message step, with attachments: $set { reply, status: "pending" }
Job_reply_pending(js, i) ==
    [js EXCEPT ![i].reply = TRUE, ![i].status = Pending]

\* the final update: $set { status: "completed", completed: now }
Job_completed(js, i) ==
    [js EXCEPT ![i].status = Completed, ![i].completed = TRUE]

\* ------------------------------------------------------- per-pool dispatch
\* the claim operation of each pool's process_queue_item
ClaimCandidates(p, js) ==
    CASE p = "BLP" -> Blp_claim_next(js)
      [] p = "REMBG_QUEUE" -> Rembg_get_next_pending(js)
      [] p = "REMBG" -> JobRembg_claim(js)
      [] p = "ICON" -> JobIcon_claim(js)

ClaimUpdate(p, js, i, w) ==
    CASE p = "BLP" -> Blp_claim_update(js, i, w)
      [] p = "REMBG_QUEUE" -> Rembg_pending_update(js, i, w)
      [] p = "REMBG" -> JobRembg_claim_update(js, i, w)
      [] p = "ICON" -> JobIcon_claim_update(js, i, w)

\* the document each pool's submit entry point inserts
NewJob(p, created, attachments) ==
    CASE p = "BLP" -> BlpQueueItem_new(created)
      [] p = "REMBG_QUEUE" -> RembgQueueItem_new(created)
      [] p = "REMBG" -> JobRembg_new(created, attachments)
      [] p = "ICON" -> JobIcon_new(created, attachments)

\* TaskProcessor pools post the status message from the worker
TaskProcessorPool(p) == p \in {"REMBG", "ICON"}

\* ------------------------------------------------------------ history state
NoClaim == [id |-> NoJob, status |-> Pending, retry |-> 0, older |-> {}, exhausted |-> {}]

\* what a claim that returns document i sees at the instant it runs
ClaimRecord(js, i) ==
    [id |-> i, status |-> js[i].status, retry |-> js[i].retry,
     older |-> {a \in Ids(js) : /\ js[a].status = Pending
                                /\ js[a].retry < MAX_RETRIES
                                /\ js[a].created < js[i].created},
     exhausted |-> {a \in Ids(js) : js[a].status = Pending /\ js[a].retry >= MAX_RETRIES}]

\* the processing jobs claimed more than `timeout` ticks ago, with their retry
Stuck(js, ago, timeout) ==
    {[id |-> i, retry |-> js[i].retry] :
        i \in {k \in Ids(js) : js[k].status = Processing /\ ago[k] > timeout}}

\* The collection becomes `new`; `claimed` is the id a claim returned (NoJob
\* otherwise). A pending episode of a job starts when its status becomes pending.
Store(new, claimed) ==
    /\ jobs' = new
    /\ claims' = [i \in Ids(new) |->
                    IF i > Len(jobs) THEN 0
                    ELSE IF new[i].status = Pending /\ jobs[i].status # Pending THEN 0
                    ELSE IF i = claimed THEN claims[i] + 1
                    ELSE claims[i]]
    /\ claimedAgo' = [i \in Ids(new) |->
                    IF new[i].status # Processing THEN Unset
                    ELSE IF i = claimed THEN 0
                    ELSE claimedAgo[i]]
    /\ lastClaim' = IF claimed = NoJob THEN NoClaim ELSE ClaimRecord(jobs, claimed)

NoStore ==
    /\ UNCHANGED <<jobs, claims, claimedAgo>>
    /\ lastClaim' = NoClaim

Goto(w, pc, job) ==
    /\ wpc' = [wpc EXCEPT ![w] = pc]
    /\ wjob' = [wjob EXCEPT ![w] = job]

LastCreated == IF Len(jobs) = 0 THEN 0 ELSE jobs[Len(jobs)].created

\* -------------------------------------------------------------------- Init
Tasks == 1..NumTasks
Instants == 0..MaxClock

\* RateLimiter::new(requests_per_second): a full bucket, refilled from now on
InitLimiter ==
    /\ tokens = RequestsPerSecond
    /\ last_refill = 0
    /\ clock = 0
    /\ tpc = [t \in Tasks |-> "idle"]
    /\ tnow = [t \in Tasks |-> 0]
    /\ granted = [i \in Instants |-> 0]

InitQueue ==
    /\ jobs = <<>>
    /\ wpc = [w \in Workers |-> "loop"]
    /\ wjob = [w \in Workers |-> NoJob]
    /\ claims = <<>>
    /\ claimedAgo = <<>>
    /\ lastClaim = NoClaim
    /\ lastSweep = {}

\* Option::None of BotStateInner.sequence / session_id (sequence numbers start at 1)
NoSeq == 0
NoSession == "none"
Sessions == {"S1", "S2"}
Seqs == 1..MaxSeq

\* the intents of the IDENTIFY payload: GUILDS + GUILD_MESSAGES + MESSAGE_CONTENT
IDENTIFY_INTENTS == 33280

\* a gateway frame as far as run_gateway reads or writes it: op, t, s (seq),
\* d.session_id and d.intents
NoFrame == [op |-> "none", t |-> "", s |-> NoSeq, session_id |-> NoSession, intents |-> 0]
\* DiscordState::load on an empty collection: every field None
DiscordStateDefault == [session_id |-> NoSession, sequence |-> NoSeq]

\* the process has not been started and nothing has been persisted
InitGateway ==
    /\ gpc = "exited"
    /\ gloop = "outer"
    /\ frame = NoFrame
    /\ session_id = NoSession
    /\ sequence = NoSeq
    /\ bot_state = DiscordStateDefault
    /\ hello = FALSE
    /\ lastEvent = "none"
    /\ ended = "none"
    /\ lastOut = NoFrame
    /\ lastDone = NoFrame
    /\ opened = 0
    /\ lastS = NoSeq

Callers == 1..NumCallers
\* worker tasks that can exist (one more than any limit allows)
TaskIds == 1..(MaxLimit + 1)
\* the pools served by notify_workers::<P>()
TaskProcessorPools == {"REMBG", "ICON"}

\* POOLS is empty and no task has been spawned
InitSupervisor ==
    /\ pool_exists = FALSE
    /\ workers = 0
    /\ max_workers = 0
    /\ permit = FALSE
    /\ npc = [c \in Callers |-> "idle"]
    /\ nlimit = [c \in Callers |-> 0]
    /\ ncur = [c \in Callers |-> 0]
    /\ task = [k \in TaskIds |-> "none"]
    /\ queued = 0
    /\ spawned = [c \in Callers |-> 0]
    /\ woken = [c \in Callers |-> 0]
    /\ raced = [c \in Callers |-> FALSE]
    /\ resized = FALSE
    /\ lowered = FALSE

\* File names, as sequences of characters. The names a job's attachments are
\* drawn from: a stem with an extension, a name that already looks like a
\* renamed duplicate, and a name without extension.
Names == {<<"a", ".", "p">>, <<"a", "_", "2", ".", "p">>, <<"a">>}
Outcomes == {"ok", "download", "codec"}

\* Attachment { id, url, filename }: the i-th attachment of the message
Attachment(i, filename) == [id |-> i, url |-> i, filename |-> filename]

AttachmentLists ==
    UNION {{[i \in 1..n |-> Attachment(i, f[i])] : f \in [1..n -> Names]} :
            n \in 0..MaxAttachments}

\* the job a worker has claimed for processing its attachments
ClaimedJob(p) ==
    LET new == <<NewJob(p, 0, TRUE)>>
        ready == IF TaskProcessorPool(p) THEN Job_reply_pending(new, 1) ELSE new
    IN ClaimUpdate(p, ready, 1, 1)[1]

\* no job with attachments has been claimed
InitProcessorIdle ==
    /\ att = <<>>
    /\ outcome = <<>>
    /\ work = <<>>
    /\ products = <<>>
    /\ ppc = "claimed"
    /\ pjob = ClaimedJob(pool)
    /\ returned = "none"
    /\ sent = FALSE

\* a worker has claimed a job with any attachments, each of which will
\* download and convert, or fail in one of the two
InitProcessor ==
    /\ att \in AttachmentLists
    /\ outcome \in [1..Len(att) -> Outcomes]
    /\ work = <<>>
    /\ products = <<>>
    /\ ppc = "claimed"
    /\ pjob = ClaimedJob(pool)
    /\ returned = "none"
    /\ sent = FALSE

\* Words of a message, as sequences of characters. The leading words a
\* mention is drawn from: the verbs, other words, verbs with an inline number.
LeadingWords ==
    {<<"b", "l", "p">>,
     <<"p", "n", "g">>,
     <<"r", "e", "m", "b", "g">>,
     <<"b", "g">>,
     <<"i", "c", "o", "n">>,
     <<"f", "o", "o">>,
     <<"b", "l", "p", "8", "0">>,
     <<"r", "e", "m", "b", "g", "1", "2", "8">>,
     <<"b", "g", "2", "0", "0">>,
     <<"b", "l", "p", "0">>,
     <<"r", "e", "m", "b", "g", "9", "9", "9">>,
     <<"B", "L", "P">>}
\* the words that can follow: flags, numbers in and out of range, key-values,
\* and a word that is no flag
FlagWords ==
    {<<"z", "i", "p">>,
     <<"b", "i", "n", "a", "r", "y">>,
     <<"m", "a", "s", "k">>,
     <<"9", "9", "9">>,
     <<"5", "0">>,
     <<"2", "0", "0">>,
     <<"2", "5", "6">>,
     <<"q", "8", "5">>,
     <<"t", "2", "0", "0">>,
     <<"-", "q">>,
     <<"-", "-", "t", "h", "r", "e", "s", "h", "o", "l", "d", "=", "1", "2", "8">>,
     <<"x", "y", "z">>}
\* the mention of the bot that starts the message
Mention == <<"<", "@", "1", ">">>
Unknown == <<"x", "y", "z">>

Contents ==
    {<<Mention, h>> \o f : h \in LeadingWords,
        f \in UNION {[1..n -> FlagWords] : n \in 0..MaxFlags}}

\* Option<CommandArgs>::None
NoArgs == [kind |-> "none", quality |-> 0, threshold |-> 0,
           zip |-> FALSE, mode |-> FALSE, mask |-> FALSE]

\* no message has been received
InitMessageIdle ==
    /\ router = "message::handle"
    /\ content = <<>>
    /\ attached = FALSE
    /\ available = FALSE
    /\ args = NoArgs
    /\ mpc = "idle"
    /\ handler = "none"
    /\ events = <<>>
    /\ inserted = <<>>

\* a mention has reached one of the two handle_message functions, or an
\* icon request has reached workers::icon::handle::handle
InitMessage ==
    /\ router \in {"message::handle", "handle::message"}
    /\ attached \in BOOLEAN
    /\ available \in BOOLEAN
    /\ args = NoArgs
    /\ events = <<>>
    /\ inserted = <<>>
    /\ \/ /\ content \in Contents
          /\ mpc = "received"
          /\ handler = "none"
       \/ /\ content = <<>>
          /\ router = "message::handle"
          /\ attached
          /\ mpc = "entered"
          /\ handler = "icon::handle"

\* the components a specification does not exercise stay in their initial state
\* download_all has not been called
InitDownloadIdle ==
    /\ metas = <<>>
    /\ ordered = <<>>
    /\ sem = 0
    /\ out = <<>>
    /\ dpc = "returned"

\* download_all(4) is called with up to MaxDownloads attachments
InitDownload ==
    /\ metas \in UNION {[1..n -> {"a", "b"}] : n \in 0..MaxDownloads}
    /\ ordered = <<>>
    /\ sem = (IF DownloadConcurrency >= 1 THEN DownloadConcurrency ELSE 1)
    /\ out = <<>>
    /\ dpc = "pushing"

\* start_blp_workers has spawned the workers and the collection is empty
InitBlpPool ==
    /\ bpending = 0
    /\ bworker = [w \in Workers |-> "claim"]
    /\ bsubmit = "idle"
    /\ bwoken = {}

\* the runtime is up and no worker task of the supervisor has been polled
InitRuntime ==
    /\ polled = {}
    /\ shutdown = FALSE

\* DiscordState::load of an absent document, and what init_bot_state keeps
NoUser == "none"
NoRate == 0
DefaultRate == 40
DiscordState_default ==
    [session_id |-> NoSession, sequence |-> NoSeq, bot_user_id |-> NoUser, rate_limit |-> NoRate]
BotState_of(d) ==
    [session_id |-> d.session_id, sequence |-> d.sequence, bot_user_id |-> d.bot_user_id]

\* the process is not running and no document has been written
InitStateIdle ==
    /\ mem = BotState_of(DiscordState_default)
    /\ stored = DiscordState_default
    /\ spc = "down"
    /\ readyEvent = [session_id |-> NoSession, user |-> NoUser]
    /\ rate = NoRate
    /\ configured = NoRate

\* the heartbeat loop is not running
InitHeartbeatIdle ==
    /\ hseq = 0
    /\ hcount = 0
    /\ hsent = 0
    /\ hlast = 0
    /\ hrecv = 0
    /\ hpc = "ended"

InitCrashIdle == crashed = FALSE

\* no MESSAGE_CREATE event is being handled
InitCreateIdle ==
    /\ cmsg = [bot |-> FALSE, mentioned |-> FALSE, words |-> <<>>, attached |-> FALSE]
    /\ crouter = "none"
    /\ cpc = "handled"
    /\ ceffects = <<>>

\* Mutex::new: both locks of the limiter are free
NoTask == 0
InitLock ==
    /\ lrHolder = NoTask
    /\ tokHolder = NoTask

InitLastIdle ==
    /\ InitStateIdle
    /\ InitHeartbeatIdle
    /\ InitCrashIdle
    /\ InitCreateIdle
    /\ InitLock

\* the components added after the attachment processor are idle
InitLaterIdle ==
    /\ InitMessageIdle
    /\ InitDownloadIdle
    /\ InitBlpPool
    /\ InitRuntime
    /\ InitLastIdle

InitAux ==
    /\ apc = [t \in Tasks |-> [op |-> "none", i |-> 1]]
    /\ acquired = [t \in Tasks |-> FALSE]
    /\ lastSend = [op |-> "none", acquired |-> TRUE]
    /\ InitGateway
    /\ InitSupervisor
    /\ InitProcessorIdle
    /\ InitLaterIdle

Init ==
    /\ pool \in Pools
    /\ InitQueue
    /\ InitLimiter
    /\ InitAux

\* ----------------------------------------------------------------- submit
\* handle() of each pool: insert one pending job. The handlers of the BLP and
\* REMBG_QUEUE pools return before the insert when the message has no
\* attachments; the TaskProcessor pools insert whatever the message holds.
\* `created` is Utc::now() of the handler: not before the previous job's.
Submit ==
    /\ Len(jobs) < MaxJobs
    /\ \E created \in {LastCreated, LastCreated + 1},
          attachments \in (IF TaskProcessorPool(pool) THEN BOOLEAN ELSE {TRUE}) :
            Store(Append(jobs, NewJob(pool, created, attachments)), NoJob)
    /\ lastSweep' = {}
    /\ UNCHANGED <<pool, wpc, wjob, limiterVars, auxVars>>

\* ------------------------------------------------------------ worker steps
\* Every step that calls the store or the chat API has two actions: the call
\* succeeds (X), or it returns an error (XFails).

\* process_queue_item, the claim returned Some(item)
Claim(w) ==
    /\ wpc[w] = "loop"
    /\ \E i \in ClaimCandidates(pool, jobs) :
        /\ Store(ClaimUpdate(pool, jobs, i, w), i)
        /\ Goto(w, "claimed", i)
    /\ lastSweep' = {}
    /\ UNCHANGED <<pool, limiterVars, auxVars>>

\* process_queue_item, the claim returned None: Ok(false), the worker awaits
\* the notifier
ClaimNone(w) ==
    /\ wpc[w] = "loop"
    /\ ClaimCandidates(pool, jobs) = {}
    /\ NoStore
    /\ Goto(w, "wait", NoJob)
    /\ lastSweep' = {}
    /\ UNCHANGED <<pool, limiterVars, auxVars>>

\* TaskProcessor pools: the claim failed in the store; process_next turns the
\* Err into Idle and the worker awaits the notifier. (A worker of the other
\* pools sleeps one second and calls process_queue_item again: no change.)
ClaimFails(w) ==
    /\ TaskProcessorPool(pool)
    /\ wpc[w] = "loop"
    /\ NoStore
    /\ Goto(w, "wait", NoJob)
    /\ lastSweep' = {}
    /\ UNCHANGED <<pool, limiterVars, auxVars>>

\* the notifier wakes the worker
Wake(w) ==
    /\ wpc[w] = "wait"
    /\ NoStore
    /\ Goto(w, "loop", NoJob)
    /\ lastSweep' = {}
    /\ UNCHANGED <<pool, limiterVars, auxVars>>

\* BLP: process_attachments returned Ok (it has no other return: a failed
\* attachment becomes an .error.txt product), then mark_completed
MarkCompleted(w) ==
    /\ pool = "BLP"
    /\ wpc[w] = "claimed"
    /\ Store(Blp_mark_completed(jobs, wjob[w]), NoJob)
    /\ Goto(w, "marked", wjob[w])
    /\ lastSweep' = {}
    /\ UNCHANGED <<pool, limiterVars, auxVars>>

\* BLP: mark_completed failed in the store; process_queue_item leaves through
\* `?`, the worker logs, sleeps and loops
MarkCompletedFails(w) ==
    /\ pool = "BLP"
    /\ wpc[w] = "claimed"
    /\ NoStore
    /\ Goto(w, "loop", NoJob)
    /\ lastSweep' = {}
    /\ UNCHANGED <<pool, limiterVars, auxVars>>

\* BLP: send_response after mark_completed; its error is only logged
SendResponse(w) ==
    /\ pool = "BLP"
    /\ wpc[w] = "marked"
    /\ NoStore
    /\ Goto(w, "loop", NoJob)
    /\ lastSweep' = {}
    /\ UNCHANGED <<pool, limiterVars, auxVars>>

\* REMBG_QUEUE: process_attachments and send_response_editable succeeded
Respond(w) ==
    /\ pool = "REMBG_QUEUE"
    /\ wpc[w] = "claimed"
    /\ NoStore
    /\ Goto(w, "sent", wjob[w])
    /\ lastSweep' = {}
    /\ UNCHANGED <<pool, limiterVars, auxVars>>

\* REMBG_QUEUE: a download in process_attachments or send_response_editable
\* failed; mark_failed is next
RespondFails(w) ==
    /\ pool = "REMBG_QUEUE"
    /\ wpc[w] = "claimed"
    /\ NoStore
    /\ Goto(w, "failing", wjob[w])
    /\ lastSweep' = {}
    /\ UNCHANGED <<pool, limiterVars, auxVars>>

\* REMBG_QUEUE: mark_completed after a successful send, mark_failed otherwise;
\* the worker returns Ok(true)
Mark(w) ==
    /\ pool = "REMBG_QUEUE"
    /\ wpc[w] \in {"sent", "failing"}
    /\ IF wpc[w] = "sent" THEN Store(Rembg_mark_completed(jobs, wjob[w]), NoJob)
       ELSE Store(Rembg_mark_failed(jobs, wjob[w]), NoJob)
    /\ Goto(w, "loop", NoJob)
    /\ lastSweep' = {}
    /\ UNCHANGED <<pool, limiterVars, auxVars>>

\* REMBG_QUEUE: `let _ = mark_..(..)`: the store update failed and its result
\* is dropped; the worker returns Ok(true) all the same
MarkFails(w) ==
    /\ pool = "REMBG_QUEUE"
    /\ wpc[w] \in {"sent", "failing"}
    /\ NoStore
    /\ Goto(w, "loop", NoJob)
    /\ lastSweep' = {}
    /\ UNCHANGED <<pool, limiterVars, auxVars>>

\* TaskProcessor pools, job.reply is None: POST the status message
PostStatus(w) ==
    /\ TaskProcessorPool(pool)
    /\ wpc[w] = "claimed"
    /\ ~jobs[wjob[w]].reply
    /\ NoStore
    /\ Goto(w, "reply_posted", wjob[w])
    /\ lastSweep' = {}
    /\ UNCHANGED <<pool, limiterVars, auxVars>>

\* ... the POST failed: process_queue_item leaves through `?`, process_next
\* returns Idle
PostStatusFails(w) ==
    /\ TaskProcessorPool(pool)
    /\ wpc[w] = "claimed"
    /\ ~jobs[wjob[w]].reply
    /\ NoStore
    /\ Goto(w, "wait", NoJob)
    /\ lastSweep' = {}
    /\ UNCHANGED <<pool, limiterVars, auxVars>>

\* TaskProcessor pools: update_one storing the reply and the status (completed
\* when the message has no attachments, pending otherwise), then Ok(true)
StoreReply(w) ==
    /\ TaskProcessorPool(pool)
    /\ wpc[w] = "reply_posted"
    /\ Store(IF jobs[wjob[w]].attachments
             THEN Job_reply_pending(jobs, wjob[w])
             ELSE Job_reply_completed(jobs, wjob[w]), NoJob)
    /\ Goto(w, "loop", NoJob)
    /\ lastSweep' = {}
    /\ UNCHANGED <<pool, limiterVars, auxVars>>

\* ... the update failed in the store: `?`, Idle
StoreReplyFails(w) ==
    /\ TaskProcessorPool(pool)
    /\ wpc[w] = "reply_posted"
    /\ NoStore
    /\ Goto(w, "wait", NoJob)
    /\ lastSweep' = {}
    /\ UNCHANGED <<pool, limiterVars, auxVars>>

\* TaskProcessor pools, job.reply is Some: transform, package and PATCH the
\* status message
Patch(w) ==
    /\ TaskProcessorPool(pool)
    /\ wpc[w] = "claimed"
    /\ jobs[wjob[w]].reply
    /\ NoStore
    /\ Goto(w, "sent", wjob[w])
    /\ lastSweep' = {}
    /\ UNCHANGED <<pool, limiterVars, auxVars>>

\* ... building the archive or the PATCH failed: `?`, Idle
PatchFails(w) ==
    /\ TaskProcessorPool(pool)
    /\ wpc[w] = "claimed"
    /\ jobs[wjob[w]].reply
    /\ NoStore
    /\ Goto(w, "wait", NoJob)
    /\ lastSweep' = {}
    /\ UNCHANGED <<pool, limiterVars, auxVars>>

\* TaskProcessor pools: the final update_one to completed, then Ok(true)
Complete(w) ==
    /\ TaskProcessorPool(pool)
    /\ wpc[w] = "sent"
    /\ Store(Job_completed(jobs, wjob[w]), NoJob)
    /\ Goto(w, "loop", NoJob)
    /\ lastSweep' = {}
    /\ UNCHANGED <<pool, limiterVars, auxVars>>

\* ... the final update failed in the store: `?`, Idle
CompleteFails(w) ==
    /\ TaskProcessorPool(pool)
    /\ wpc[w] = "sent"
    /\ NoStore
    /\ Goto(w, "wait", NoJob)
    /\ lastSweep' = {}
    /\ UNCHANGED <<pool, limiterVars, auxVars>>

\* ------------------------------------------------------------------ sweep
\* The stuck-job sweep of the service runs. Only BlpQueueItem defines one
\* (reset_stuck_items); no operation of the other collections resets a job.
Sweep ==
    /\ lastSweep' = Stuck(jobs, claimedAgo, SweepTimeout)
    /\ IF pool = "BLP" THEN Store(Blp_reset_stuck_items(jobs, SweepTimeout), NoJob)
       ELSE NoStore
    /\ UNCHANGED <<pool, wpc, wjob, limiterVars, auxVars>>

\* ------------------------------------------------------------------- time
Older(age) == IF age = Unset \/ age >= MaxAge THEN age ELSE age + 1

\* One tick passes. started_at is read only on processing documents (by the
\* sweep) and every claim overwrites it, so only their ages advance.
Tick ==
    /\ jobs' = [i \in Ids(jobs) |->
                 IF jobs[i].status = Processing
                 THEN [jobs[i] EXCEPT !.started_at = Older(@)] ELSE jobs[i]]
    /\ claimedAgo' = [i \in Ids(jobs) |-> Older(claimedAgo[i])]
    /\ lastClaim' = NoClaim
    /\ lastSweep' = {}
    /\ UNCHANGED <<pool, wpc, wjob, claims, limiterVars, auxVars>>

\* the steps in which every call succeeds
WorkerStep(w) ==
    \/ Claim(w) \/ ClaimNone(w) \/ Wake(w)
    \/ MarkCompleted(w) \/ SendResponse(w)
    \/ Respond(w) \/ Mark(w)
    \/ PostStatus(w) \/ StoreReply(w) \/ Patch(w) \/ Complete(w)

\* the steps in which the store or the chat API returns an error
WorkerError(w) ==
    \/ ClaimFails(w) \/ MarkCompletedFails(w) \/ RespondFails(w) \/ MarkFails(w)
    \/ PostStatusFails(w) \/ StoreReplyFails(w) \/ PatchFails(w) \/ CompleteFails(w)

Next ==
    \/ Submit
    \/ \E w \in Workers : WorkerStep(w) \/ WorkerError(w)
    \/ Sweep
    \/ Tick

Spec == Init /\ [][Next]_vars

\* Workers are tokio tasks and are scheduled fairly, time passes, the sweep
\* keeps running and a waiting worker is woken again and again. The store does
\* not refuse a claim for ever: a worker that finds a claimable job again and
\* again eventually claims one. (Every other error leaves the worker's job
\* in a state no claim matches, so no other error can repeat for ever.)
FairSpec ==
    /\ Spec
    /\ \A w \in Workers : WF_vars(WorkerStep(w)) /\ SF_vars(Claim(w))
    /\ WF_vars(Sweep)
    /\ WF_vars(Tick)

\* ----------------------------------------------------------- rate limiter
\* RateLimiter fields set by new(): max_tokens and refill_rate (tokens per second)
max_tokens == RequestsPerSecond
refill_rate == RequestsPerSecond

Min(a, b) == IF a <= b THEN a ELSE b

\* now.duration_since(*last_refill): tokio's Instant saturates at zero
duration_since(now, earlier) == IF now >= earlier THEN now - earlier ELSE 0

\* (*tokens + elapsed * self.refill_rate).min(self.max_tokens)
new_tokens(tok, elapsed) == Min(tok + elapsed * refill_rate, max_tokens)

\* acquire(): `let now = Instant::now();`, before either lock is taken
ReadNow(t) ==
    /\ tpc[t] = "idle"
    /\ tnow' = [tnow EXCEPT ![t] = clock]
    /\ tpc' = [tpc EXCEPT ![t] = "locking"]
    /\ UNCHANGED <<tokens, last_refill, clock, granted, queueVars, auxVars>>

\* acquire(): both locks held: refill, set last_refill to the task's `now`,
\* then take a token and return, or release the locks and sleep
Refill(t) ==
    /\ tpc[t] = "locking"
    /\ LET refilled == new_tokens(tokens, duration_since(tnow[t], last_refill)) IN
        /\ last_refill' = tnow[t]
        /\ IF refilled >= 1
           THEN /\ tokens' = refilled - 1
                /\ granted' = [granted EXCEPT ![clock] = @ + 1]
                /\ tpc' = [tpc EXCEPT ![t] = "idle"]
           ELSE /\ tokens' = refilled
                /\ granted' = granted
                /\ tpc' = [tpc EXCEPT ![t] = "sleep"]
    /\ UNCHANGED <<clock, tnow, queueVars, auxVars>>

\* acquire(): tokio::time::sleep(50 ms) is over, back to the top of the loop
Sleep(t) ==
    /\ tpc[t] = "sleep"
    /\ tpc' = [tpc EXCEPT ![t] = "idle"]
    /\ UNCHANGED <<tokens, last_refill, clock, tnow, granted, queueVars, auxVars>>

\* one second passes on the monotonic clock
ClockTick ==
    /\ clock < MaxClock
    /\ clock' = clock + 1
    /\ UNCHANGED <<tokens, last_refill, tpc, tnow, granted, queueVars, auxVars>>

InitLimiterSpec ==
    /\ pool = "BLP"
    /\ InitQueue
    /\ InitLimiter
    /\ InitAux

NextLimiter ==
    \/ \E t \in Tasks : ReadNow(t) \/ Refill(t) \/ Sleep(t)
    \/ ClockTick

SpecLimiter == InitLimiterSpec /\ [][NextLimiter]_vars

\* ------------------------------------------------------- REST call sites
\* The functions that send an HTTP request to the chat platform, each as the
\* sequence of its calls: "acquire" is limiter.acquire().await, "send" is
\* RequestBuilder::send().await.
RestOps ==
    [send                     |-> <<"acquire", "send">>,
     send_message             |-> <<"acquire", "send">>,
     handle_message           |-> <<"acquire", "send">>,
     get_channel_permissions  |-> <<"acquire", "send">>,
     get_gateway_bot_info     |-> <<"send">>,
     get_gateway_url          |-> <<"send">>,
     get_application_id       |-> <<"send">>,
     register_slash_commands  |-> <<"send">>,
     respond_to_interaction   |-> <<"send">>]

NoOp == "none"
NoSend == [op |-> NoOp, acquired |-> TRUE]

\* the call the caller is about to make ("return" after the last one)
RestStep(t) ==
    IF apc[t].op = NoOp THEN "idle"
    ELSE IF apc[t].i > Len(RestOps[apc[t].op]) THEN "return"
    ELSE RestOps[apc[t].op][apc[t].i]

InitApi ==
    /\ apc = [t \in Tasks |-> [op |-> NoOp, i |-> 1]]
    /\ acquired = [t \in Tasks |-> FALSE]
    /\ lastSend = NoSend

\* a task enters one of the functions
RestCall(t) ==
    /\ RestStep(t) = "idle"
    /\ \E op \in DOMAIN RestOps : apc' = [apc EXCEPT ![t] = [op |-> op, i |-> 1]]
    /\ lastSend' = NoSend
    /\ UNCHANGED <<acquired, queueVars, limiterVars, gatewayVars, supervisorVars, processorVars, laterVars>>

\* limiter.acquire().await returns: the bucket, refilled up to this instant,
\* holds a token and the caller takes it (otherwise the caller sleeps 50 ms
\* and tries again, so the call returns only once a token is there)
RestAcquire(t) ==
    /\ RestStep(t) = "acquire"
    /\ LET refilled == new_tokens(tokens, duration_since(clock, last_refill)) IN
        /\ refilled >= 1
        /\ tokens' = refilled - 1
        /\ last_refill' = clock
        /\ granted' = [granted EXCEPT ![clock] = @ + 1]
    /\ apc' = [apc EXCEPT ![t].i = @ + 1]
    /\ acquired' = [acquired EXCEPT ![t] = TRUE]
    /\ lastSend' = NoSend
    /\ UNCHANGED <<clock, tpc, tnow, queueVars, gatewayVars, supervisorVars, processorVars, laterVars>>

\* the request goes out (whatever the response is)
RestSend(t) ==
    /\ RestStep(t) = "send"
    /\ lastSend' = [op |-> apc[t].op, acquired |-> acquired[t]]
    /\ acquired' = [acquired EXCEPT ![t] = FALSE]
    /\ apc' = [apc EXCEPT ![t].i = @ + 1]
    /\ UNCHANGED <<queueVars, limiterVars, gatewayVars, supervisorVars, processorVars, laterVars>>

\* the function returns to its caller
RestReturn(t) ==
    /\ RestStep(t) = "return"
    /\ apc' = [apc EXCEPT ![t] = [op |-> NoOp, i |-> 1]]
    /\ lastSend' = NoSend
    /\ UNCHANGED <<acquired, queueVars, limiterVars, gatewayVars, supervisorVars, processorVars, laterVars>>

InitApiSpec ==
    /\ pool = "BLP"
    /\ InitQueue
    /\ InitLimiter
    /\ InitApi
    /\ InitGateway
    /\ InitSupervisor
    /\ InitProcessorIdle
    /\ InitLaterIdle

NextApi ==
    \/ \E t \in Tasks : RestCall(t) \/ RestAcquire(t) \/ RestSend(t) \/ RestReturn(t)
    \/ ClockTick

SpecApi == InitApiSpec /\ [][NextApi]_vars

\* ------------------------------------------------------- gateway session
\* Inbound frames. The server sends hello first and once on a connection;
\* dispatch frames carry a sequence number, the others carry none.
Hello == [NoFrame EXCEPT !.op = "Hello"]
InvalidSession == [NoFrame EXCEPT !.op = "InvalidSession"]
HeartbeatAck == [NoFrame EXCEPT !.op = "HeartbeatAck"]
Ready(n, sid) == [NoFrame EXCEPT !.op = "Dispatch", !.t = "READY", !.s = n, !.session_id = sid]
Dispatch(n, ty) == [NoFrame EXCEPT !.op = "Dispatch", !.t = ty, !.s = n]
Inbound ==
    {InvalidSession, HeartbeatAck}
        \cup {Ready(n, sid) : n \in Seqs, sid \in Sessions}
        \cup {Dispatch(n, ty) : n \in Seqs, ty \in {"RESUMED", "MESSAGE_CREATE"}}

\* Outbound frames: op 6 RESUME {token, session_id, seq}, op 2 IDENTIFY, op 1 heartbeat
Resume(sid, n) == [NoFrame EXCEPT !.op = "Resume", !.s = n, !.session_id = sid]
Identify == [NoFrame EXCEPT !.op = "Identify", !.intents = IDENTIFY_INTENTS]
Heartbeat(n) == [NoFrame EXCEPT !.op = "Heartbeat", !.s = n]

\* state::save_state(): the document written from the in-memory state
save_state_always_default(sid, n) == DiscordStateDefault
save_state(sid, n) == [session_id |-> sid, sequence |-> n]

\* Opcode::Hello arm: `if let Some(session_id) = session_id` RESUME else IDENTIFY
hello_frame_always_identify(sid, n) == Identify
hello_frame(sid, n) == IF sid # NoSession THEN Resume(sid, n) ELSE Identify

\* main: the process starts, init_bot_state loads the persisted document into
\* memory, and the connection to the gateway is made
GatewayStart ==
    /\ gpc = "exited"
    /\ session_id' = bot_state.session_id
    /\ sequence' = bot_state.sequence
    /\ gpc' = "outer"
    /\ gloop' = "outer"
    /\ hello' = FALSE
    /\ ended' = "none"
    /\ opened' = 0
    /\ lastS' = NoSeq
    /\ frame' = NoFrame
    /\ lastOut' = NoFrame
    /\ lastDone' = NoFrame
    /\ UNCHANGED <<bot_state, lastEvent, queueVars, limiterVars, apiVars, supervisorVars, processorVars, laterVars>>

\* read.next() yields a text frame, in the outer `while let` or in the select!
Recv(f) ==
    /\ gpc \in {"outer", "inner"}
    /\ (f = Hello) <=> ~hello
    /\ frame' = f
    /\ gloop' = gpc
    /\ gpc' = "update"
    /\ hello' = TRUE
    /\ lastOut' = NoFrame
    /\ lastDone' = NoFrame
    /\ UNCHANGED <<session_id, sequence, bot_state, lastEvent, ended, opened, lastS,
                   queueVars, limiterVars, apiVars, supervisorVars, processorVars, laterVars>>

\* state::update_sequence(event.s): memory, then save_state() succeeds
UpdateSequence ==
    /\ gpc = "update"
    /\ IF frame.s # NoSeq
        THEN /\ sequence' = frame.s
             /\ bot_state' = save_state(session_id, frame.s)
             /\ lastS' = frame.s
        ELSE UNCHANGED <<sequence, bot_state, lastS>>
    /\ gpc' = "dispatch"
    /\ lastOut' = NoFrame
    /\ lastDone' = NoFrame
    /\ UNCHANGED <<gloop, frame, session_id, hello, lastEvent, ended, opened,
                   queueVars, limiterVars, apiVars, supervisorVars, processorVars, laterVars>>

\* state::update_sequence(event.s): `let _ = save_state().await` drops a store error
UpdateSequenceSaveFails ==
    /\ gpc = "update"
    /\ frame.s # NoSeq
    /\ sequence' = frame.s
    /\ lastS' = frame.s
    /\ gpc' = "dispatch"
    /\ lastOut' = NoFrame
    /\ lastDone' = NoFrame
    /\ UNCHANGED <<gloop, frame, session_id, bot_state, hello, lastEvent, ended, opened,
                   queueVars, limiterVars, apiVars, supervisorVars, processorVars, laterVars>>

\* Opcode::Hello in the outer loop: log_resume / log_identify (errors dropped),
\* the session frame is sent, the heartbeat loop is entered
OnHello ==
    /\ gpc = "dispatch" /\ gloop = "outer" /\ frame.op = "Hello"
    /\ lastOut' = hello_frame(session_id, sequence)
    /\ \E logged \in BOOLEAN :
        lastEvent' = IF ~logged THEN lastEvent
                     ELSE IF session_id # NoSession THEN "resume" ELSE "identify"
    /\ opened' = opened + 1
    /\ lastDone' = frame
    /\ gpc' = "inner"
    /\ UNCHANGED <<gloop, frame, session_id, sequence, bot_state, hello, ended, lastS,
                   queueVars, limiterVars, apiVars, supervisorVars, processorVars, laterVars>>

\* Opcode::Hello: `write.send(..).await?` fails and run_gateway returns the error
OnHelloSendFails ==
    /\ gpc = "dispatch" /\ gloop = "outer" /\ frame.op = "Hello"
    /\ gpc' = "exited"
    /\ ended' = "error"
    /\ lastOut' = NoFrame
    /\ lastDone' = NoFrame
    /\ UNCHANGED <<gloop, frame, session_id, sequence, bot_state, hello, lastEvent,
                   opened, lastS, queueVars, limiterVars, apiVars, supervisorVars, processorVars, laterVars>>

\* outer loop, `_ => {}`: any other opcode read there is ignored
OuterIgnore ==
    /\ gpc = "dispatch" /\ gloop = "outer" /\ frame.op # "Hello"
    /\ gpc' = "outer"
    /\ lastOut' = NoFrame
    /\ lastDone' = frame
    /\ UNCHANGED <<gloop, frame, session_id, sequence, bot_state, hello, lastEvent,
                   ended, opened, lastS, queueVars, limiterVars, apiVars, supervisorVars, processorVars, laterVars>>

\* handle_dispatch_event, EventType::Ready: set_session_id (memory, then
\* save_state, its error dropped) and log_ready
OnReady ==
    /\ gpc = "dispatch" /\ gloop = "inner"
    /\ frame.op = "Dispatch" /\ frame.t = "READY"
    /\ session_id' = frame.session_id
    /\ \E saved \in BOOLEAN :
        bot_state' = IF saved THEN save_state(frame.session_id, sequence) ELSE bot_state
    /\ \E logged \in BOOLEAN : lastEvent' = IF logged THEN "ready" ELSE lastEvent
    /\ gpc' = "inner"
    /\ lastOut' = NoFrame
    /\ lastDone' = frame
    /\ UNCHANGED <<gloop, frame, sequence, hello, ended, opened, lastS,
                   queueVars, limiterVars, apiVars, supervisorVars, processorVars, laterVars>>

\* inner loop: any other dispatch (its handler's errors are logged), HeartbeatAck, `_`
OnOther ==
    /\ gpc = "dispatch" /\ gloop = "inner"
    /\ \/ frame.op = "Dispatch" /\ frame.t # "READY"
       \/ frame.op = "HeartbeatAck"
    /\ gpc' = "inner"
    /\ lastOut' = NoFrame
    /\ lastDone' = frame
    /\ UNCHANGED <<gloop, frame, session_id, sequence, bot_state, hello, lastEvent,
                   ended, opened, lastS, queueVars, limiterVars, apiVars, supervisorVars, processorVars, laterVars>>

\* Opcode::InvalidSession in the inner loop: log_invalid_session, clear_session
\* (memory, then save_state), `return Ok(())`; every store call succeeds
OnInvalidSession ==
    /\ gpc = "dispatch" /\ gloop = "inner" /\ frame.op = "InvalidSession"
    /\ lastEvent' = "invalid_session"
    /\ session_id' = NoSession
    /\ sequence' = NoSeq
    /\ bot_state' = save_state(NoSession, NoSeq)
    /\ gpc' = "exited"
    /\ ended' = "ok"
    /\ lastOut' = NoFrame
    /\ lastDone' = frame
    /\ UNCHANGED <<gloop, frame, hello, opened, lastS, queueVars, limiterVars, apiVars, supervisorVars, processorVars, laterVars>>

\* Opcode::InvalidSession in the inner loop when a store call fails:
\* `let _ = log_invalid_session(..)` and `let _ = save_state()` drop the error
OnInvalidSessionStoreFails ==
    /\ gpc = "dispatch" /\ gloop = "inner" /\ frame.op = "InvalidSession"
    /\ \E logged \in BOOLEAN, saved \in BOOLEAN :
        /\ ~(logged /\ saved)
        /\ lastEvent' = IF logged THEN "invalid_session" ELSE lastEvent
        /\ bot_state' = IF saved THEN save_state(NoSession, NoSeq) ELSE bot_state
    /\ session_id' = NoSession
    /\ sequence' = NoSeq
    /\ gpc' = "exited"
    /\ ended' = "ok"
    /\ lastOut' = NoFrame
    /\ lastDone' = frame
    /\ UNCHANGED <<gloop, frame, hello, opened, lastS, queueVars, limiterVars, apiVars, supervisorVars, processorVars, laterVars>>

\* select!, interval.tick(): the heartbeat carries get_sequence() and is sent
SendHeartbeat ==
    /\ gpc = "inner"
    /\ lastOut' = Heartbeat(sequence)
    /\ lastDone' = NoFrame
    /\ UNCHANGED <<gpc, gloop, frame, session_id, sequence, bot_state, hello, lastEvent,
                   ended, opened, lastS, queueVars, limiterVars, apiVars, supervisorVars, processorVars, laterVars>>

\* select!, interval.tick(): the send fails, `break` leaves the heartbeat loop
\* for the outer `while let`
SendHeartbeatFails ==
    /\ gpc = "inner"
    /\ gpc' = "outer"
    /\ lastOut' = NoFrame
    /\ lastDone' = NoFrame
    /\ UNCHANGED <<gloop, frame, session_id, sequence, bot_state, hello, lastEvent,
                   ended, opened, lastS, queueVars, limiterVars, apiVars, supervisorVars, processorVars, laterVars>>

\* read.next() yields Err: `msg?` / `return Err(e.into())`; main returns it with
\* `?` and the process ends
TransportError ==
    /\ gpc \in {"outer", "inner"}
    /\ gpc' = "exited"
    /\ ended' = "error"
    /\ lastOut' = NoFrame
    /\ lastDone' = NoFrame
    /\ UNCHANGED <<gloop, frame, session_id, sequence, bot_state, hello, lastEvent,
                   opened, lastS, queueVars, limiterVars, apiVars, supervisorVars, processorVars, laterVars>>

\* read.next() yields None in the outer loop: run_gateway returns Ok(())
StreamEnd ==
    /\ gpc = "outer"
    /\ gpc' = "exited"
    /\ ended' = "ok"
    /\ lastOut' = NoFrame
    /\ lastDone' = NoFrame
    /\ UNCHANGED <<gloop, frame, session_id, sequence, bot_state, hello, lastEvent,
                   opened, lastS, queueVars, limiterVars, apiVars, supervisorVars, processorVars, laterVars>>

InitGatewaySpec ==
    /\ pool = "BLP"
    /\ InitQueue
    /\ InitLimiter
    /\ InitApi
    /\ InitGateway
    /\ InitSupervisor
    /\ InitProcessorIdle
    /\ InitLaterIdle

NextGateway ==
    \/ GatewayStart
    \/ \E f \in Inbound \cup {Hello} : Recv(f)
    \/ UpdateSequence
    \/ UpdateSequenceSaveFails
    \/ OnHello
    \/ OnHelloSendFails
    \/ OuterIgnore
    \/ OnReady
    \/ OnOther
    \/ OnInvalidSession
    \/ OnInvalidSessionStoreFails
    \/ SendHeartbeat
    \/ SendHeartbeatFails
    \/ TransportError
    \/ StreamEnd

SpecGateway == InitGatewaySpec /\ [][NextGateway]_vars

\* -------------------------------------------------------- pool supervisor
Max(a, b) == IF a >= b THEN a ELSE b

\* TaskProcessor::DEFAULT_MAX_WORKERS; RembgProcessor and IconProcessor set only POOL
DEFAULT_MAX_WORKERS(p) == 1

\* AtomicUsize::compare_exchange(cur, cur + 1).is_ok()
compare_exchange_always(current, cur) == TRUE
compare_exchange(current, cur) == current = cur

Running == {k \in TaskIds : task[k] # "none"}
Waiting == {k \in TaskIds : task[k] = "waiting"}

\* notify_workers is called (by a handler that has inserted a job, or by a
\* processor); pools().entry(P::POOL) creates the pool on the first call
NotifyEnter(c) ==
    /\ npc[c] = "idle"
    /\ \E add \in {0, 1} :
        /\ queued + add <= MaxQueued
        /\ queued' = queued + add
    /\ pool_exists' = TRUE
    /\ max_workers' = IF pool_exists THEN max_workers ELSE Max(DEFAULT_MAX_WORKERS(pool), 1)
    /\ npc' = [npc EXCEPT ![c] = "limit"]
    /\ spawned' = [spawned EXCEPT ![c] = 0]
    /\ woken' = [woken EXCEPT ![c] = 0]
    /\ raced' = [raced EXCEPT ![c] = FALSE]
    /\ UNCHANGED <<workers, permit, nlimit, ncur, task, resized, lowered,
                   queueVars, limiterVars, apiVars, gatewayVars, processorVars, laterVars>>

\* `let limit = pool.max_workers.load(..).max(1);`
LoadLimit(c) ==
    /\ npc[c] = "limit"
    /\ nlimit' = [nlimit EXCEPT ![c] = Max(max_workers, 1)]
    /\ npc' = [npc EXCEPT ![c] = "load"]
    /\ UNCHANGED <<pool_exists, workers, max_workers, permit, ncur, task, queued, spawned,
                   woken, raced, resized, lowered,
                   queueVars, limiterVars, apiVars, gatewayVars, processorVars, laterVars>>

\* `let cur = pool.workers.load(..); if cur >= limit { break; }`
LoadWorkers(c) ==
    /\ npc[c] = "load"
    /\ ncur' = [ncur EXCEPT ![c] = workers]
    /\ npc' = [npc EXCEPT ![c] = IF workers >= nlimit[c] THEN "notify" ELSE "cas"]
    /\ UNCHANGED <<pool_exists, workers, max_workers, permit, nlimit, task, queued, spawned,
                   woken, raced, resized, lowered,
                   queueVars, limiterVars, apiVars, gatewayVars, processorVars, laterVars>>

\* compare_exchange(cur, cur + 1): on success one worker task is spawned and
\* the loop is left, on failure the loop starts over
CompareExchange(c) ==
    /\ npc[c] = "cas"
    /\ IF compare_exchange(workers, ncur[c])
        THEN /\ workers' = ncur[c] + 1
             /\ \E k \in TaskIds :
                 /\ task[k] = "none"
                 /\ \A j \in TaskIds : j < k => task[j] # "none"
                 /\ task' = [task EXCEPT ![k] = "poll"]
             /\ spawned' = [spawned EXCEPT ![c] = @ + 1]
             /\ npc' = [npc EXCEPT ![c] = "notify"]
             /\ UNCHANGED raced
        ELSE /\ npc' = [npc EXCEPT ![c] = "load"]
             /\ raced' = [raced EXCEPT ![c] = TRUE]
             /\ UNCHANGED <<workers, task, spawned>>
    /\ UNCHANGED <<pool_exists, max_workers, permit, nlimit, ncur, queued, woken,
                   resized, lowered, queueVars, limiterVars, apiVars, gatewayVars, processorVars, laterVars>>

\* pool.notify.notify_one(): one waiting worker is woken, or, with no worker
\* waiting, the permit is stored
NotifyOne(c) ==
    /\ npc[c] = "notify"
    /\ IF Waiting # {}
        THEN /\ \E k \in Waiting : task' = [task EXCEPT ![k] = "poll"]
             /\ woken' = [woken EXCEPT ![c] = @ + 1]
             /\ UNCHANGED permit
        ELSE /\ permit' = TRUE
             /\ UNCHANGED <<task, woken>>
    /\ npc' = [npc EXCEPT ![c] = "idle"]
    /\ UNCHANGED <<pool_exists, workers, max_workers, nlimit, ncur, queued, spawned, raced,
                   resized, lowered, queueVars, limiterVars, apiVars, gatewayVars, processorVars, laterVars>>

\* set_max_workers(new_limit): stores new_limit.max(1) if the pool exists
SetMaxWorkers(new_limit) ==
    /\ pool_exists
    /\ max_workers' = Max(new_limit, 1)
    /\ resized' = TRUE
    /\ lowered' = (lowered \/ Max(new_limit, 1) < max_workers)
    /\ UNCHANGED <<pool_exists, workers, permit, npc, nlimit, ncur, task, queued, spawned,
                   woken, raced, queueVars, limiterVars, apiVars, gatewayVars, processorVars, laterVars>>

\* worker_loop: process_next() claims a job (DidWork follows), or finds none
\* (Idle) and `notified.await` takes the stored permit or parks the task
ProcessNext(k) ==
    /\ task[k] = "poll"
    /\ IF queued > 0
        THEN /\ queued' = queued - 1
             /\ task' = [task EXCEPT ![k] = "job"]
             /\ UNCHANGED permit
        ELSE /\ permit' = FALSE
             /\ task' = [task EXCEPT ![k] = IF permit THEN "poll" ELSE "waiting"]
             /\ UNCHANGED queued
    /\ UNCHANGED <<pool_exists, workers, max_workers, npc, nlimit, ncur, spawned, woken,
                   raced, resized, lowered, queueVars, limiterVars, apiVars, gatewayVars, processorVars, laterVars>>

\* worker_loop: the job is done, TaskStatus::DidWork => continue
FinishJob(k) ==
    /\ task[k] = "job"
    /\ task' = [task EXCEPT ![k] = "poll"]
    /\ UNCHANGED <<pool_exists, workers, max_workers, permit, npc, nlimit, ncur, queued,
                   spawned, woken, raced, resized, lowered,
                   queueVars, limiterVars, apiVars, gatewayVars, processorVars, laterVars>>

NotifyStep(c) ==
    NotifyEnter(c) \/ LoadLimit(c) \/ LoadWorkers(c) \/ CompareExchange(c) \/ NotifyOne(c)

TaskStep(k) == ProcessNext(k) \/ FinishJob(k)

InitSupervisorSpec ==
    /\ pool \in TaskProcessorPools
    /\ InitQueue
    /\ InitLimiter
    /\ InitApi
    /\ InitGateway
    /\ InitSupervisor
    /\ InitProcessorIdle
    /\ InitLaterIdle

NextSupervisor ==
    \/ \E c \in Callers : NotifyEnter(c)
    \/ \E c \in Callers : LoadLimit(c)
    \/ \E c \in Callers : LoadWorkers(c)
    \/ \E c \in Callers : CompareExchange(c)
    \/ \E c \in Callers : NotifyOne(c)
    \/ \E n \in 0..MaxLimit : SetMaxWorkers(n)
    \/ \E k \in TaskIds : ProcessNext(k)
    \/ \E k \in TaskIds : FinishJob(k)

SpecSupervisor == InitSupervisorSpec /\ [][NextSupervisor]_vars

\* the runtime runs every task and every caller that can take a step
FairSpecSupervisor ==
    /\ SpecSupervisor
    /\ \A c \in Callers : WF_vars(LoadLimit(c) \/ LoadWorkers(c) \/ CompareExchange(c) \/ NotifyOne(c))
    /\ \A k \in TaskIds : WF_vars(TaskStep(k))

\* ------------------------------------------------------ attachment names
\* the position of the last '.' of a name (0 if there is none)
LastDot(name) ==
    LET dots == {i \in 1..Len(name) : name[i] = "."}
    IN IF dots = {} THEN 0 ELSE CHOOSE i \in dots : \A j \in dots : j <= i

\* Path::extension() is Some: there is a '.' and it is not the leading character
has_extension(name) == LastDot(name) > 1

\* Path::extension(): the part after the last '.'
extension(name) == SubSeq(name, LastDot(name) + 1, Len(name))

\* Path::file_stem(): the name up to the last '.', the whole name without extension
file_stem(name) == IF has_extension(name) THEN SubSeq(name, 1, LastDot(name) - 1) ELSE name

Digits == <<"0", "1", "2", "3", "4", "5", "6", "7", "8", "9">>

RECURSIVE usize_to_string(_)
\* the Display of a usize
usize_to_string(n) ==
    IF n < 10 THEN <<Digits[n + 1]>>
    ELSE usize_to_string(n \div 10) \o <<Digits[(n % 10) + 1]>>

\* format!("{}_{}.{}", stem, count, ext) / format!("{}_{}", stem, count)
renamed(name, count) ==
    IF has_extension(name)
        THEN file_stem(name) \o <<"_">> \o usize_to_string(count) \o <<".">> \o extension(name)
        ELSE file_stem(name) \o <<"_">> \o usize_to_string(count)

RECURSIVE ensure_unique_from(_, _, _)
\* the loop of ensure_unique_filenames from attachment i on; counters is the
\* HashMap from stem to the number of attachments seen with it
ensure_unique_from(attachments, i, counters) ==
    IF i > Len(attachments) THEN attachments
    ELSE LET name == attachments[i].filename
             stem == file_stem(name)
             count == IF stem \in DOMAIN counters THEN counters[stem] + 1 ELSE 1
         IN ensure_unique_from(
                IF count > 1
                    THEN [attachments EXCEPT ![i].filename = renamed(name, count)]
                    ELSE attachments,
                i + 1,
                [k \in DOMAIN counters \cup {stem} |-> IF k = stem THEN count ELSE counters[k]])

\* ensure_unique_filenames(attachments)
ensure_unique_filenames(attachments) ==
    ensure_unique_from(attachments, 1, [k \in {} |-> 0])

ErrorTxt == <<".", "e", "r", "r", "o", "r", ".", "t", "x", "t">>

\* blp/processor.rs: filename.rsplit('.').nth(1), else the whole filename
Blp_base_name(name) ==
    IF LastDot(name) = 0 THEN name
    ELSE LET before == SubSeq(name, 1, LastDot(name) - 1)
         IN SubSeq(before, LastDot(before) + 1, Len(before))

\* blp/processor.rs: "{base}.error.txt", or "{base}.error_{count}.txt" when
\* count earlier products of this job have the same name
Blp_error_filename(name, count) ==
    IF count > 1
        THEN Blp_base_name(name) \o <<".", "e", "r", "r", "o", "r", "_">>
                \o usize_to_string(count) \o <<".", "t", "x", "t">>
        ELSE Blp_base_name(name) \o ErrorTxt

\* the name of the error product of attachment i of list w, per processor
ErrorFilename(p, w, o, i) ==
    CASE p = "BLP" ->
            Blp_error_filename(w[i].filename,
                1 + Cardinality({j \in 1..(i - 1) :
                        /\ o[j] # "ok"
                        /\ Blp_base_name(w[j].filename) = Blp_base_name(w[i].filename)}))
      [] p = "REMBG_QUEUE" -> w[i].filename \o ErrorTxt
      [] p = "REMBG" -> file_stem(w[i].filename) \o ErrorTxt
      [] p = "ICON" -> file_stem(w[i].filename) \o ErrorTxt

\* whether the processor turns the failure into a product (otherwise the `?`
\* operator returns it from the function)
Captured(p, o) ==
    CASE p = "BLP" -> TRUE
      [] p = "REMBG_QUEUE" -> o = "codec"
      [] p = "REMBG" -> o = "download"
      [] p = "ICON" -> TRUE

\* ------------------------------------------------- attachment processing
\* RembgProcessor / IconProcessor: ensure_unique_filenames(job.message.attachments)
\* .download_all(4), which records each download error in its AttachmentMemory
EnsureUnique ==
    /\ ppc = "claimed"
    /\ TaskProcessorPool(pool)
    /\ work' = ensure_unique_filenames(att)
    /\ ppc' = "loop"
    /\ UNCHANGED <<att, outcome, products, pjob, returned, sent,
                   queueVars, limiterVars, apiVars, gatewayVars, supervisorVars, laterVars>>

\* blp and rembg_processor process_attachments: the loop runs over item.attachments
TakeAttachments ==
    /\ ppc = "claimed"
    /\ ~TaskProcessorPool(pool)
    /\ work' = att
    /\ ppc' = "loop"
    /\ UNCHANGED <<att, outcome, products, pjob, returned, sent,
                   queueVars, limiterVars, apiVars, gatewayVars, supervisorVars, laterVars>>

\* the attachment the loop is at
Current == Len(products) + 1

\* one iteration: the attachment downloads and converts
ConvertOk ==
    /\ ppc = "loop" /\ Current <= Len(work)
    /\ outcome[Current] = "ok"
    /\ products' = Append(products, [kind |-> "file", of |-> work[Current].id])
    /\ UNCHANGED <<att, outcome, work, ppc, pjob, returned, sent,
                   queueVars, limiterVars, apiVars, gatewayVars, supervisorVars, laterVars>>

\* one iteration: the failure becomes an error.txt product and the loop goes on
ConvertCaptured ==
    /\ ppc = "loop" /\ Current <= Len(work)
    /\ outcome[Current] # "ok"
    /\ Captured(pool, outcome[Current])
    /\ products' = Append(products,
            [kind |-> "error", of |-> work[Current].id,
             name |-> ErrorFilename(pool, work, outcome, Current)])
    /\ UNCHANGED <<att, outcome, work, ppc, pjob, returned, sent,
                   queueVars, limiterVars, apiVars, gatewayVars, supervisorVars, laterVars>>

\* one iteration: `?` returns the failure. rembg_processor's process_queue_item
\* marks the job failed; RembgProcessor::process_queue_item itself returns Err
\* and process_next only reports it
ConvertPropagates ==
    /\ ppc = "loop" /\ Current <= Len(work)
    /\ outcome[Current] # "ok"
    /\ ~Captured(pool, outcome[Current])
    /\ returned' = "err"
    /\ pjob' = IF pool = "REMBG_QUEUE" THEN Rembg_mark_failed(<<pjob>>, 1)[1] ELSE pjob
    /\ ppc' = "done"
    /\ UNCHANGED <<att, outcome, work, products, sent,
                   queueVars, limiterVars, apiVars, gatewayVars, supervisorVars, laterVars>>

\* the loop is over: the products are sent with the result message
SendResult ==
    /\ ppc = "loop" /\ Current > Len(work)
    /\ sent' = TRUE
    /\ ppc' = "sent"
    /\ UNCHANGED <<att, outcome, work, products, pjob, returned,
                   queueVars, limiterVars, apiVars, gatewayVars, supervisorVars, laterVars>>

\* the job is marked completed and the processor returns Ok
Finish ==
    /\ ppc = "sent"
    /\ pjob' = CASE pool = "BLP" -> Blp_mark_completed(<<pjob>>, 1)[1]
                 [] pool = "REMBG_QUEUE" -> Rembg_mark_completed(<<pjob>>, 1)[1]
                 [] OTHER -> Job_completed(<<pjob>>, 1)[1]
    /\ returned' = "ok"
    /\ ppc' = "done"
    /\ UNCHANGED <<att, outcome, work, products, sent,
                   queueVars, limiterVars, apiVars, gatewayVars, supervisorVars, laterVars>>

InitProcessorSpec ==
    /\ pool \in Pools
    /\ InitQueue
    /\ InitLimiter
    /\ InitApi
    /\ InitGateway
    /\ InitSupervisor
    /\ InitProcessor
    /\ InitLaterIdle

NextProcessor ==
    \/ EnsureUnique
    \/ TakeAttachments
    \/ ConvertOk
    \/ ConvertCaptured
    \/ ConvertPropagates
    \/ SendResult
    \/ Finish

SpecProcessor == InitProcessorSpec /\ [][NextProcessor]_vars

\* --------------------------------------------------------- command parser
StartsWith(s, prefix) == Len(s) >= Len(prefix) /\ SubSeq(s, 1, Len(prefix)) = prefix
\* &s[n..]
Skip(s, n) == SubSeq(s, n + 1, Len(s))

IsDigits(s) == Len(s) > 0 /\ \A i \in 1..Len(s) : \E d \in 1..10 : Digits[d] = s[i]

RECURSIVE DecimalValue(_)
DecimalValue(s) ==
    IF s = <<>> THEN 0
    ELSE 10 * DecimalValue(SubSeq(s, 1, Len(s) - 1))
            + (CHOOSE d \in 0..9 : Digits[d + 1] = s[Len(s)])

ParseError == -1
\* str::parse::<u16>(): decimal digits with a value that fits 16 bits
parse_u16(s) ==
    IF IsDigits(s) /\ DecimalValue(s) <= 65535 THEN DecimalValue(s) ELSE ParseError

\* char::to_lowercase
Lower(c) ==
    CASE c = "B" -> "b" [] c = "L" -> "l" [] c = "P" -> "p" [] OTHER -> c
to_lowercase(s) == [i \in 1..Len(s) |-> Lower(s[i])]

\* CommandArgs::default() of discord/message/handle.rs and of discord/handle/message.rs
CommandArgs_default(r) ==
    [kind |-> "png", quality |-> 80,
     threshold |-> IF r = "message::handle" THEN 160 ELSE 60,
     zip |-> FALSE, mode |-> FALSE, mask |-> FALSE]

\* "blp" => Blp, "png" => Png, "rembg" | "bg" => Rembg
CommandKindOf(verb) ==
    CASE verb = <<"b", "l", "p">> -> "blp"
      [] verb = <<"p", "n", "g">> -> "png"
      [] verb = <<"r", "e", "m", "b", "g">> -> "rembg"
      [] verb = <<"b", "g">> -> "rembg"
      [] OTHER -> "none"

\* a numeric value applied to the field of the verb, when it is in its range
ApplyNumber(a, n) ==
    IF a.kind = "blp" /\ n >= 1 /\ n <= 100 THEN [a EXCEPT !.quality = n]
    ELSE IF a.kind = "rembg" /\ n >= 0 /\ n <= 255 THEN [a EXCEPT !.threshold = n]
    ELSE a

\* discord/message/handle.rs: .filter(|t| !t.starts_with('<'))
NotMention(t) == ~StartsWith(t, <<"<">>)

RECURSIVE New_flags(_, _, _)
\* discord/message/handle.rs: `for &tok in &toks[1..]`
New_flags(toks, i, a) ==
    IF i > Len(toks) THEN a
    ELSE LET t == toks[i] IN
         New_flags(toks, i + 1,
            CASE t = <<"z", "i", "p">> -> [a EXCEPT !.zip = TRUE]
              [] t = <<"b", "i", "n", "a", "r", "y">> -> [a EXCEPT !.mode = TRUE]
              [] t = <<"m", "a", "s", "k">> -> [a EXCEPT !.mask = TRUE]
              [] OTHER -> IF parse_u16(t) # ParseError THEN ApplyNumber(a, parse_u16(t)) ELSE a)

\* discord/message/handle.rs parse_command_args
New_parse_command_args(text) ==
    LET toks == SelectSeq(text, NotMention) IN
    IF toks = <<>> THEN NoArgs
    ELSE IF CommandKindOf(toks[1]) = "none" THEN NoArgs
    ELSE New_flags(toks, 2,
            [CommandArgs_default("message::handle") EXCEPT !.kind = CommandKindOf(toks[1])])

\* discord/handle/message.rs: the mention pattern <@!?\d+>|<@&\d+>|<#\d+>
\* (a mention is a word of its own in the texts considered here)
IsMention(t) ==
    /\ Len(t) >= 4 /\ t[1] = "<" /\ t[Len(t)] = ">"
    /\ LET body == SubSeq(t, 2, Len(t) - 1) IN
        \/ StartsWith(body, <<"@", "!">>) /\ IsDigits(Skip(body, 2))
        \/ StartsWith(body, <<"@", "&">>) /\ IsDigits(Skip(body, 2))
        \/ StartsWith(body, <<"@">>) /\ IsDigits(Skip(body, 1))
        \/ StartsWith(body, <<"#">>) /\ IsDigits(Skip(body, 1))
NoMention(t) == ~IsMention(t)

\* the verb of the head pattern ^(blp|png|rembg|bg)(\d{1,3})?(?:\s|$) in the
\* first word (the empty word when it does not match)
Legacy_head(word) ==
    LET verbs == {v \in {<<"b", "l", "p">>, <<"p", "n", "g">>, <<"r", "e", "m", "b", "g">>, <<"b", "g">>} :
                    /\ StartsWith(word, v)
                    /\ \/ Skip(word, Len(v)) = <<>>
                       \/ IsDigits(Skip(word, Len(v))) /\ Len(Skip(word, Len(v))) <= 3}
    IN IF verbs = {} THEN <<>> ELSE CHOOSE v \in verbs : TRUE

\* parse_u8_in(s, min, max)
parse_u8_in(s, min, max) ==
    IF parse_u16(s) # ParseError /\ parse_u16(s) >= min /\ parse_u16(s) <= max
        THEN parse_u16(s) ELSE ParseError

RECURSIVE Legacy_flags(_, _, _)
\* discord/handle/message.rs: `while i < toks.len()` over the words of the tail
Legacy_flags(toks, i, a) ==
    IF i > Len(toks) THEN a
    ELSE LET t == toks[i]
             next == IF i + 1 <= Len(toks) THEN toks[i + 1] ELSE <<>>
             key == IF a.kind = "blp" THEN <<"q">> ELSE <<"t">>
             short == IF a.kind = "blp" THEN <<"-", "q">> ELSE <<"-", "t">>
             long == IF a.kind = "blp" THEN <<"-", "-", "q", "u", "a", "l", "i", "t", "y">> ELSE <<"-", "-", "t", "h", "r", "e", "s", "h", "o", "l", "d">>
             lo == IF a.kind = "blp" THEN 1 ELSE 0
             hi == IF a.kind = "blp" THEN 100 ELSE 255
             set(n) == IF n = ParseError THEN a
                       ELSE IF a.kind = "blp" THEN [a EXCEPT !.quality = n]
                       ELSE [a EXCEPT !.threshold = n]
         IN
         IF t \in {<<"z", "i", "p">>, <<"-", "z">>, <<"-", "-", "z", "i", "p">>}
            THEN Legacy_flags(toks, i + 1, [a EXCEPT !.zip = TRUE])
         ELSE IF t \in {<<"b", "i", "n", "a", "r", "y">>, <<"-", "b">>, <<"-", "-", "b", "i", "n", "a", "r", "y">>}
            THEN Legacy_flags(toks, i + 1, [a EXCEPT !.mode = TRUE])
         ELSE IF t \in {<<"m", "a", "s", "k">>, <<"-", "m">>, <<"-", "-", "m", "a", "s", "k">>}
            THEN Legacy_flags(toks, i + 1, [a EXCEPT !.mask = TRUE])
         ELSE IF StartsWith(t, <<"z", "i", "p", "=">>)
            THEN Legacy_flags(toks, i + 1,
                    IF Skip(t, 4) \in {<<"1">>, <<"t", "r", "u", "e">>, <<"y", "e", "s">>}
                        THEN [a EXCEPT !.zip = TRUE] ELSE a)
         ELSE IF a.kind = "png"
            THEN Legacy_flags(toks, i + 1, a)
         ELSE IF Len(t) > 1 /\ StartsWith(t, key)
            THEN Legacy_flags(toks, i + 1, set(parse_u8_in(Skip(t, 1), lo, hi)))
         ELSE IF t = short \/ t = long
            THEN IF next # <<>> /\ parse_u8_in(next, lo, hi) # ParseError
                    THEN Legacy_flags(toks, i + 2, set(parse_u8_in(next, lo, hi)))
                    ELSE Legacy_flags(toks, i + 1, a)
         ELSE IF StartsWith(t, long \o <<"=">>)
            THEN Legacy_flags(toks, i + 1, set(parse_u8_in(Skip(t, Len(long) + 1), lo, hi)))
         ELSE Legacy_flags(toks, i + 1, a)

\* discord/handle/message.rs parse_command_args
Legacy_parse_command_args(text) ==
    LET stripped == SelectSeq(text, NoMention)
        cleaned == [i \in 1..Len(stripped) |-> to_lowercase(stripped[i])]
    IN
    IF cleaned = <<>> THEN NoArgs
    ELSE IF Legacy_head(cleaned[1]) = <<>> THEN NoArgs
    ELSE LET verb == Legacy_head(cleaned[1])
             inline == Skip(cleaned[1], Len(verb))
             a0 == [CommandArgs_default("handle::message") EXCEPT !.kind = CommandKindOf(verb)]
             a1 == IF inline # <<>> /\ parse_u16(inline) # ParseError
                    THEN ApplyNumber(a0, parse_u16(inline)) ELSE a0
         IN Legacy_flags(cleaned, 2, a1)

parse_command_args(r, text) ==
    IF r = "message::handle" THEN New_parse_command_args(text)
    ELSE Legacy_parse_command_args(text)

\* ---------------------------------------------------- router and submit
\* the collection each submit function inserts into
SubmitPool(h) ==
    CASE h = "blp::handle" -> "BLP"
      [] h = "handle_blp_conversion" -> "BLP"
      [] h = "rembg::handle" -> "REMBG_QUEUE"
      [] h = "handle_rembg_pipeline" -> "REMBG_QUEUE"
      [] h = "icon::handle" -> "ICON"

\* the submit functions that post the status message themselves
PostsStatus(h) == h # "icon::handle"
\* the submit functions that check REMBG_AVAILABLE
ChecksAvailable(h) == h \in {"rembg::handle", "handle_rembg_pipeline"}
\* the submit functions that wake the workers after the insert
\* (rembg::handle has its notify_rembg_task() call commented out)
Notifies(h) == h # "rembg::handle"

Done(result) ==
    /\ mpc' = result
    /\ UNCHANGED <<router, content, attached, available, args, handler, inserted>>

\* handle_message: parse_command_args(&message.content, &bot_user_id)
ParseCommand ==
    /\ mpc = "received"
    /\ args' = parse_command_args(router, content)
    /\ mpc' = "parsed"
    /\ UNCHANGED <<router, content, attached, available, handler, events, inserted, notMessageVars>>

\* handle_message: nothing parsed, or (discord/handle/message.rs) no
\* attachments or rembg unavailable: `return Ok(())` without any message
RouteNone ==
    /\ mpc = "parsed"
    /\ \/ args.kind = "none"
       \/ router = "handle::message" /\ ~attached
       \/ router = "handle::message" /\ args.kind = "rembg" /\ ~available
    /\ Done("ok")
    /\ UNCHANGED <<events, notMessageVars>>

\* handle_message: `match args.kind` calls the submit function of the kind
Route ==
    /\ mpc = "parsed"
    /\ args.kind # "none"
    /\ router = "handle::message" => attached /\ (args.kind = "rembg" => available)
    /\ handler' =
        IF router = "message::handle"
            THEN IF args.kind = "rembg" THEN "rembg::handle" ELSE "blp::handle"
            ELSE IF args.kind = "rembg" THEN "handle_rembg_pipeline" ELSE "handle_blp_conversion"
    /\ mpc' = "entered"
    /\ UNCHANGED <<router, content, attached, available, args, events, inserted, notMessageVars>>

\* submit: `if message.attachments.is_empty() { return Ok(()); }`
SubmitEmpty ==
    /\ mpc = "entered"
    /\ PostsStatus(handler) /\ ~attached
    /\ Done("ok")
    /\ UNCHANGED <<events, notMessageVars>>

\* submit: rembg is unavailable, the reply saying so is posted
SubmitUnavailable ==
    /\ mpc = "entered"
    /\ ChecksAvailable(handler) /\ attached /\ ~available
    /\ events' = Append(events, "unavailable")
    /\ Done("ok")
    /\ UNCHANGED notMessageVars

\* submit: the status message is posted
SubmitPost ==
    /\ mpc = "entered"
    /\ PostsStatus(handler) /\ attached
    /\ ChecksAvailable(handler) => available
    /\ events' = Append(events, "status")
    /\ mpc' = "posted"
    /\ UNCHANGED <<router, content, attached, available, args, handler, inserted, notMessageVars>>

\* submit: posting (the status message or the unavailable reply) fails and
\* `?` returns the error
SubmitPostFails ==
    /\ mpc = "entered"
    /\ PostsStatus(handler) /\ attached
    /\ Done("err")
    /\ UNCHANGED <<events, notMessageVars>>

\* handle_blp_conversion: the post is answered with an error status; the
\* status message id is None and the function goes on to insert
SubmitPostRejected ==
    /\ mpc = "entered"
    /\ handler = "handle_blp_conversion" /\ attached
    /\ mpc' = "rejected"
    /\ UNCHANGED <<router, content, attached, available, args, handler, events, inserted, notMessageVars>>

\* submit: the job document is inserted
SubmitInsert ==
    /\ \/ mpc \in {"posted", "rejected"}
       \/ mpc = "entered" /\ ~PostsStatus(handler)
    /\ inserted' = Append(inserted,
            [NewJob(SubmitPool(handler), 0, attached) EXCEPT
                !.reply = IF mpc = "rejected" THEN FALSE ELSE @])
    /\ events' = Append(events, "insert")
    /\ mpc' = "inserted"
    /\ UNCHANGED <<router, content, attached, available, args, handler, notMessageVars>>

\* submit: the insert fails and `?` returns the error
SubmitInsertFails ==
    /\ \/ mpc \in {"posted", "rejected"}
       \/ mpc = "entered" /\ ~PostsStatus(handler)
    /\ Done("err")
    /\ UNCHANGED <<events, notMessageVars>>

\* submit: notify_blp_task() / notify_rembg_task() / notify_workers::<IconProcessor>()
SubmitNotify ==
    /\ mpc = "inserted"
    /\ Notifies(handler)
    /\ events' = Append(events, "notify")
    /\ Done("ok")
    /\ UNCHANGED notMessageVars

\* workers/rembg/handle.rs: `Ok(())` right after the insert
SubmitReturn ==
    /\ mpc = "inserted"
    /\ ~Notifies(handler)
    /\ Done("ok")
    /\ UNCHANGED <<events, notMessageVars>>

InitMessageSpec ==
    /\ pool = "BLP"
    /\ InitQueue
    /\ InitLimiter
    /\ InitApi
    /\ InitGateway
    /\ InitSupervisor
    /\ InitProcessorIdle
    /\ InitMessage
    /\ InitDownloadIdle
    /\ InitBlpPool
    /\ InitRuntime
    /\ InitLastIdle

NextMessage ==
    \/ ParseCommand
    \/ RouteNone
    \/ Route
    \/ SubmitEmpty
    \/ SubmitUnavailable
    \/ SubmitPost
    \/ SubmitPostFails
    \/ SubmitPostRejected
    \/ SubmitInsert
    \/ SubmitInsertFails
    \/ SubmitNotify
    \/ SubmitReturn

SpecMessage == InitMessageSpec /\ [][NextMessage]_vars

\* ------------------------------------------------------------ download_all
\* a stream that yields any completed future (FuturesUnordered)
NextReady_unordered(futs, taken) ==
    {i \in 1..Len(futs) : futs[i].state = "done"}

\* what `ordered.next()` can yield: the future at the head of the queue, once
\* it has completed
NextReady(futs, taken) ==
    {i \in {taken + 1} : i <= Len(futs) /\ futs[i].state = "done"}

\* download_all: `for a in self { ordered.push_back(async move { .. }) }`
PushBack ==
    /\ dpc = "pushing"
    /\ Len(ordered) < Len(metas)
    /\ ordered' = Append(ordered,
            [state |-> "new", meta |-> metas[Len(ordered) + 1], error |-> FALSE])
    /\ UNCHANGED <<metas, sem, out, dpc, notDownloadVars>>

\* download_all: the loop over `self` is over, `ordered.next().await` starts
\* polling the futures
PushedAll ==
    /\ dpc = "pushing"
    /\ Len(ordered) = Len(metas)
    /\ dpc' = "collecting"
    /\ UNCHANGED <<metas, ordered, sem, out, notDownloadVars>>

\* a future: `let _permit = sem.acquire().await`
AcquirePermit(i) ==
    /\ dpc = "collecting"
    /\ ordered[i].state = "new"
    /\ sem > 0
    /\ sem' = sem - 1
    /\ ordered' = [ordered EXCEPT ![i].state = "downloading"]
    /\ UNCHANGED <<metas, out, dpc, notDownloadVars>>

\* a future: try_from_remote, download() returned Ok; the permit is dropped
DownloadOk(i) ==
    /\ dpc = "collecting"
    /\ ordered[i].state = "downloading"
    /\ sem' = sem + 1
    /\ ordered' = [ordered EXCEPT ![i].state = "done"]
    /\ UNCHANGED <<metas, out, dpc, notDownloadVars>>

\* a future: try_from_remote, download() returned Err: m.error = Some(..);
\* the permit is dropped
DownloadErr(i) ==
    /\ dpc = "collecting"
    /\ ordered[i].state = "downloading"
    /\ sem' = sem + 1
    /\ ordered' = [ordered EXCEPT ![i].state = "done", ![i].error = TRUE]
    /\ UNCHANGED <<metas, out, dpc, notDownloadVars>>

\* download_all: `while let Some(item) = ordered.next().await { out.push(item) }`
CollectNext ==
    /\ dpc = "collecting"
    /\ \E i \in NextReady(ordered, Len(out)) :
        /\ out' = Append(out, [meta |-> ordered[i].meta, error |-> ordered[i].error])
        /\ ordered' = [ordered EXCEPT ![i].state = "taken"]
    /\ UNCHANGED <<metas, sem, dpc, notDownloadVars>>

\* download_all: `ordered.next()` returned None, `out` is returned
ReturnOut ==
    /\ dpc = "collecting"
    /\ \A i \in 1..Len(ordered) : ordered[i].state = "taken"
    /\ dpc' = "returned"
    /\ UNCHANGED <<metas, ordered, sem, out, notDownloadVars>>

InitDownloadSpec ==
    /\ pool = "BLP"
    /\ InitQueue
    /\ InitLimiter
    /\ InitApi
    /\ InitGateway
    /\ InitSupervisor
    /\ InitProcessorIdle
    /\ InitMessageIdle
    /\ InitDownload
    /\ InitBlpPool
    /\ InitRuntime
    /\ InitLastIdle

NextDownload ==
    \/ PushBack
    \/ PushedAll
    \/ \E i \in 1..Len(ordered) : AcquirePermit(i)
    \/ \E i \in 1..Len(ordered) : DownloadOk(i)
    \/ \E i \in 1..Len(ordered) : DownloadErr(i)
    \/ CollectNext
    \/ ReturnOut

SpecDownload == InitDownloadSpec /\ [][NextDownload]_vars

\* ------------------------------------------------- BLP pool: notify_waiters
\* Notify::notify_waiters(): the workers whose `notified()` is registered are
\* woken; no permit is stored for the others
notify_waiters(ws) == [w \in Workers |-> IF ws[w] = "parked" THEN "claim" ELSE ws[w]]

\* workers/blp/handle.rs: the job document is inserted
BlpInsert ==
    /\ bsubmit = "idle"
    /\ bpending < MaxQueued
    /\ bpending' = bpending + 1
    /\ bsubmit' = "inserted"
    /\ UNCHANGED <<bworker, bwoken, notBlpPoolVars>>

\* workers/blp/handle.rs: notify_blp_task() after the insert
BlpNotify ==
    /\ bsubmit = "inserted"
    /\ bworker' = notify_waiters(bworker)
    /\ bwoken' = {w \in Workers : bworker[w] = "parked"}
    /\ bsubmit' = "idle"
    /\ UNCHANGED <<bpending, notBlpPoolVars>>

\* worker_loop: process_queue_item claimed a document
BlpClaim(w) ==
    /\ bworker[w] = "claim"
    /\ bpending > 0
    /\ bpending' = bpending - 1
    /\ bworker' = [bworker EXCEPT ![w] = "work"]
    /\ UNCHANGED <<bsubmit, bwoken, notBlpPoolVars>>

\* worker_loop: process_queue_item returned Ok(true) => continue
BlpDone(w) ==
    /\ bworker[w] = "work"
    /\ bworker' = [bworker EXCEPT ![w] = "claim"]
    /\ UNCHANGED <<bpending, bsubmit, bwoken, notBlpPoolVars>>

\* worker_loop: claim_next returned None, process_queue_item returns Ok(false)
BlpClaimNone(w) ==
    /\ bworker[w] = "claim"
    /\ bpending = 0
    /\ bworker' = [bworker EXCEPT ![w] = "idle"]
    /\ UNCHANGED <<bpending, bsubmit, bwoken, notBlpPoolVars>>

\* worker_loop: Ok(false) => notify.notified().await: the future is created
\* and registered only now
BlpNotified(w) ==
    /\ bworker[w] = "idle"
    /\ bworker' = [bworker EXCEPT ![w] = "parked"]
    /\ UNCHANGED <<bpending, bsubmit, bwoken, notBlpPoolVars>>

\* worker_loop: process_queue_item returned Err: the worker logs and sleeps
\* one second
BlpClaimErr(w) ==
    /\ bworker[w] = "claim"
    /\ bworker' = [bworker EXCEPT ![w] = "sleep"]
    /\ UNCHANGED <<bpending, bsubmit, bwoken, notBlpPoolVars>>

\* worker_loop: the sleep is over, the loop starts again
BlpSleepDone(w) ==
    /\ bworker[w] = "sleep"
    /\ bworker' = [bworker EXCEPT ![w] = "claim"]
    /\ UNCHANGED <<bpending, bsubmit, bwoken, notBlpPoolVars>>

InitBlpPoolSpec ==
    /\ pool = "BLP"
    /\ InitQueue
    /\ InitLimiter
    /\ InitApi
    /\ InitGateway
    /\ InitSupervisor
    /\ InitProcessorIdle
    /\ InitMessageIdle
    /\ InitDownloadIdle
    /\ InitBlpPool
    /\ InitRuntime
    /\ InitLastIdle

NextBlpPool ==
    \/ BlpInsert
    \/ BlpNotify
    \/ \E w \in Workers : BlpClaim(w)
    \/ \E w \in Workers : BlpDone(w)
    \/ \E w \in Workers : BlpClaimNone(w)
    \/ \E w \in Workers : BlpNotified(w)
    \/ \E w \in Workers : BlpClaimErr(w)
    \/ \E w \in Workers : BlpSleepDone(w)

SpecBlpPool == InitBlpPoolSpec /\ [][NextBlpPool]_vars

\* ------------------------------------- pool supervisor: errors and exits
\* the steps of the supervisor and of its tasks need the runtime, and a task
\* runs worker_loop only after the first poll of its async block
Up == ~shutdown

\* the spawned task is polled for the first time: `let _slot = WorkerSlot { .. }`
FirstPoll(k) ==
    /\ Up
    /\ task[k] = "poll"
    /\ k \notin polled
    /\ polled' = polled \cup {k}
    /\ UNCHANGED <<shutdown, supervisorVars, notSupervisorVars>>

\* process_next: process_queue_item returned Err: on_error logs it and the
\* status is TaskStatus::Idle
ProcessNextErr(k) ==
    /\ Up
    /\ task[k] = "poll"
    /\ k \in polled
    /\ task' = [task EXCEPT ![k] = "err"]
    /\ UNCHANGED <<pool_exists, workers, max_workers, permit, npc, nlimit, ncur, queued,
                   spawned, woken, raced, resized, lowered, runtimeVars, notSupervisorVars>>

\* worker_loop after the error: TaskStatus::Idle => notified.await takes the
\* stored permit or parks the task
AwaitAfterErr(k) ==
    /\ Up
    /\ task[k] = "err"
    /\ permit' = FALSE
    /\ task' = [task EXCEPT ![k] = IF permit THEN "poll" ELSE "waiting"]
    /\ UNCHANGED <<pool_exists, workers, max_workers, npc, nlimit, ncur, queued,
                   spawned, woken, raced, resized, lowered, runtimeVars, notSupervisorVars>>

\* WorkerSlot::drop: pool.workers.fetch_sub(1)
WorkerSlot_drop(n) == n - 1

\* process_queue_item panics (job.id.unwrap() and the like): the task ends and
\* the unwinding drops _slot
TaskPanics(k) ==
    /\ Up
    /\ task[k] = "job"
    /\ task' = [task EXCEPT ![k] = "none"]
    /\ workers' = WorkerSlot_drop(workers)
    /\ polled' = polled \ {k}
    /\ UNCHANGED <<pool_exists, max_workers, permit, npc, nlimit, ncur, queued,
                   spawned, woken, raced, resized, lowered, shutdown, notSupervisorVars>>

\* the runtime starts to shut down (main returns, or the Runtime is dropped)
Shutdown ==
    /\ Up
    /\ shutdown' = TRUE
    /\ UNCHANGED <<polled, supervisorVars, notSupervisorVars>>

\* the shutdown drops a task's future: a future that was polled owns its
\* _slot, which is dropped with it; a future that was never polled holds only
\* the captured Arcs, and no WorkerSlot was ever created
TaskCancelled(k) ==
    /\ shutdown
    /\ task[k] # "none"
    /\ task' = [task EXCEPT ![k] = "none"]
    /\ workers' = IF k \in polled THEN WorkerSlot_drop(workers) ELSE workers
    /\ polled' = polled \ {k}
    /\ UNCHANGED <<pool_exists, max_workers, permit, npc, nlimit, ncur, queued,
                   spawned, woken, raced, resized, lowered, shutdown, notSupervisorVars>>

NextSupervisorFaults ==
    \/ \E c \in Callers : Up /\ NotifyEnter(c)
    \/ \E c \in Callers : Up /\ LoadLimit(c)
    \/ \E c \in Callers : Up /\ LoadWorkers(c)
    \/ \E c \in Callers : Up /\ CompareExchange(c)
    \/ \E c \in Callers : Up /\ NotifyOne(c)
    \/ \E n \in 0..MaxLimit : Up /\ SetMaxWorkers(n)
    \/ \E k \in TaskIds : Up /\ k \in polled /\ ProcessNext(k)
    \/ \E k \in TaskIds : Up /\ FinishJob(k)
    \/ \E k \in TaskIds : FirstPoll(k)
    \/ \E k \in TaskIds : ProcessNextErr(k)
    \/ \E k \in TaskIds : AwaitAfterErr(k)
    \/ \E k \in TaskIds : TaskPanics(k)
    \/ Shutdown
    \/ \E k \in TaskIds : TaskCancelled(k)

InitSupervisorFaultsSpec ==
    /\ pool = "REMBG"
    /\ InitQueue
    /\ InitLimiter
    /\ InitApi
    /\ InitGateway
    /\ InitSupervisor
    /\ InitProcessorIdle
    /\ InitLaterIdle

SpecSupervisorFaults == InitSupervisorFaultsSpec /\ [][NextSupervisorFaults]_vars

\* ---------------------------------------------------------- session state
SessionIds == {"s1", "s2"}
UserIds == {"u1", "u2"}
\* the rates an operator may have configured in the document
Rates == {20, 45}

\* the documents a previous run (or an operator) can have left in the store
StoredStates ==
    [session_id : {NoSession} \cup SessionIds, sequence : {NoSeq} \cup 1..MaxSeq,
     bot_user_id : {NoUser} \cup UserIds, rate_limit : {NoRate} \cup Rates]

\* state::save_state(): the document built from memory, `rate_limit: None`,
\* and DiscordState::save: replace_one with upsert puts it in place of the
\* stored one
save_state_doc(m, old) ==
    [session_id |-> m.session_id, sequence |-> m.sequence,
     bot_user_id |-> m.bot_user_id, rate_limit |-> NoRate]

\* `let _ = save_state().await`: the document is replaced, or the store
\* fails and the error is dropped
Saved(m) == stored' \in {save_state_doc(m, stored), stored}

\* init_bot_state: DiscordState::load, the limiter built with
\* saved_state.rate_limit.unwrap_or(40.0), memory filled from the document
StateStart ==
    /\ spc = "down"
    /\ mem' = BotState_of(stored)
    /\ rate' = IF stored.rate_limit = NoRate THEN DefaultRate ELSE stored.rate_limit
    /\ spc' = "up"
    /\ UNCHANGED <<stored, readyEvent, configured, notStateVars>>

\* update_sequence(Some(s))
StateUpdateSequence(n) ==
    /\ spc = "up"
    /\ mem' = [mem EXCEPT !.sequence = n]
    /\ Saved(mem')
    /\ UNCHANGED <<spc, readyEvent, rate, configured, notStateVars>>

\* handle_dispatch_event, READY: set_session_id(session_id) (memory, then
\* save_state) and log_ready
ReadySetSessionId(sid, uid) ==
    /\ spc = "up"
    /\ readyEvent' = [session_id |-> sid, user |-> uid]
    /\ mem' = [mem EXCEPT !.session_id = sid]
    /\ Saved(mem')
    /\ spc' = "ready"
    /\ UNCHANGED <<rate, configured, notStateVars>>

\* handle_dispatch_event, READY: set_bot_user_id(user_id): memory only
ReadySetBotUserId ==
    /\ spc = "ready"
    /\ mem' = [mem EXCEPT !.bot_user_id = readyEvent.user]
    /\ spc' = "up"
    /\ UNCHANGED <<stored, readyEvent, rate, configured, notStateVars>>

\* clear_session()
StateClearSession ==
    /\ spc = "up"
    /\ mem' = [mem EXCEPT !.session_id = NoSession, !.sequence = NoSeq]
    /\ Saved(mem')
    /\ UNCHANGED <<spc, readyEvent, rate, configured, notStateVars>>

\* the process ends (an error returned by main, a kill): memory is lost
StateStop ==
    /\ spc # "down"
    /\ spc' = "down"
    /\ UNCHANGED <<mem, stored, readyEvent, rate, configured, notStateVars>>

InitStateSpec ==
    /\ pool = "BLP"
    /\ InitQueue
    /\ InitLimiter
    /\ InitApi
    /\ InitGateway
    /\ InitSupervisor
    /\ InitProcessorIdle
    /\ InitMessageIdle
    /\ InitDownloadIdle
    /\ InitBlpPool
    /\ InitRuntime
    /\ InitHeartbeatIdle
    /\ InitCrashIdle
    /\ InitCreateIdle
    /\ InitLock
    /\ stored \in StoredStates
    /\ configured = stored.rate_limit
    /\ mem = BotState_of(DiscordState_default)
    /\ spc = "down"
    /\ readyEvent = [session_id |-> NoSession, user |-> NoUser]
    /\ rate = NoRate

NextState ==
    \/ StateStart
    \/ \E n \in 1..MaxSeq : StateUpdateSequence(n)
    \/ \E sid \in SessionIds, uid \in UserIds : ReadySetSessionId(sid, uid)
    \/ ReadySetBotUserId
    \/ StateClearSession
    \/ StateStop

SpecState == InitStateSpec /\ [][NextState]_vars

\* --------------------------------------------------------- heartbeat loop
\* Heartbeat::increment: find_one, count + 1 (1 for an absent document),
\* replace_one with upsert
Heartbeat_increment(count) == count + 1

\* select!, read.next(): a frame arrives, update_sequence(event.s) keeps its
\* sequence number if it has one
HbRecv(s) ==
    /\ hpc = "select"
    /\ hseq' = IF s # NoSeq THEN s ELSE hseq
    /\ hrecv' = IF s # NoSeq THEN s ELSE hrecv
    /\ UNCHANGED <<hcount, hsent, hlast, hpc, notHeartbeatVars>>

\* select!, heartbeat_timer.tick(): `"d": get_sequence()` is sent
HbSend ==
    /\ hpc = "select"
    /\ hsent < MaxBeats
    /\ hlast' = hseq
    /\ hsent' = hsent + 1
    /\ hpc' = "log"
    /\ UNCHANGED <<hseq, hcount, hrecv, notHeartbeatVars>>

\* ... the send fails: `break`, no heartbeat is sent on this connection again
HbSendFails ==
    /\ hpc = "select"
    /\ hpc' = "ended"
    /\ UNCHANGED <<hseq, hcount, hsent, hlast, hrecv, notHeartbeatVars>>

\* `let _ = state::log_heartbeat().await`: the counter is incremented
HbLog ==
    /\ hpc = "log"
    /\ hcount' = Heartbeat_increment(hcount)
    /\ hpc' = "select"
    /\ UNCHANGED <<hseq, hsent, hlast, hrecv, notHeartbeatVars>>

\* ... the store fails in find_one or replace_one and the error is dropped
HbLogFails ==
    /\ hpc = "log"
    /\ hpc' = "select"
    /\ UNCHANGED <<hseq, hcount, hsent, hlast, hrecv, notHeartbeatVars>>

\* the heartbeat loop has been entered; memory holds the sequence loaded by
\* init_bot_state, the last one a frame of an earlier run carried
InitHeartbeatSpec ==
    /\ pool = "BLP"
    /\ InitQueue
    /\ InitLimiter
    /\ InitApi
    /\ InitGateway
    /\ InitSupervisor
    /\ InitProcessorIdle
    /\ InitMessageIdle
    /\ InitDownloadIdle
    /\ InitBlpPool
    /\ InitRuntime
    /\ InitStateIdle
    /\ InitCrashIdle
    /\ InitCreateIdle
    /\ InitLock
    /\ hseq \in {NoSeq} \cup 1..MaxSeq
    /\ hrecv = hseq
    /\ hcount = 0
    /\ hsent = 0
    /\ hlast = NoSeq
    /\ hpc = "select"

NextHeartbeat ==
    \/ \E s \in {NoSeq} \cup 1..MaxSeq : HbRecv(s)
    \/ HbSend
    \/ HbSendFails
    \/ HbLog
    \/ HbLogFails

SpecHeartbeat == InitHeartbeatSpec /\ [][NextHeartbeat]_vars

\* ------------------------------------------------- crash and restart (ICON, REMBG)
\* A job no task of the process holds although its status is processing
Orphaned(i) ==
    /\ i \in Ids(jobs)
    /\ jobs[i].status = Processing
    /\ \A w \in Workers : wjob[w] # i

\* The process dies and is started again: every task is gone with whatever it
\* held, the collections are as the last completed store call left them. The
\* restarted process is given its workers at once (the code starts them at the
\* first notify_workers, which handle() calls after its insert).
Crash ==
    /\ ~crashed
    /\ crashed' = TRUE
    /\ wpc' = [w \in Workers |-> "loop"]
    /\ wjob' = [w \in Workers |-> NoJob]
    /\ NoStore
    /\ lastSweep' = {}
    /\ UNCHANGED <<pool, baseVarsButQueue, stateVars, heartbeatVars, createVars, lockVars>>

\* The crash is the only fault: every call to the store and to the chat API
\* succeeds, so a job is orphaned by the crash alone.
InitCrashSpec ==
    /\ Init
    /\ TaskProcessorPool(pool)

NextCrash ==
    \/ Submit
    \/ \E w \in Workers : Claim(w)
    \/ \E w \in Workers : ClaimNone(w)
    \/ \E w \in Workers : Wake(w)
    \/ \E w \in Workers : PostStatus(w)
    \/ \E w \in Workers : StoreReply(w)
    \/ \E w \in Workers : Patch(w)
    \/ \E w \in Workers : Complete(w)
    \/ Sweep
    \/ Tick
    \/ Crash

SpecCrash == InitCrashSpec /\ [][NextCrash]_vars

\* Workers are scheduled fairly, time passes and the sweep keeps running; the
\* store does not refuse a claim for ever. The crash itself is never forced.
FairSpecCrash ==
    /\ SpecCrash
    /\ \A w \in Workers : WF_vars(WorkerStep(w)) /\ SF_vars(Claim(w))
    /\ WF_vars(Sweep)
    /\ WF_vars(Tick)

\* ---------------------------------------------- acquire() with its two locks
\* `self.last_refill.lock().await`: the task waits until the mutex is free
LockLastRefill(t) ==
    /\ tpc[t] = "locking"
    /\ lrHolder = NoTask
    /\ lrHolder' = t
    /\ tpc' = [tpc EXCEPT ![t] = "elapsed"]
    /\ UNCHANGED <<tokens, last_refill, clock, tnow, granted, tokHolder>>
    /\ UNCHANGED <<queueVars, apiVars, gatewayVars, supervisorVars, processorVars,
                   messageVars, downloadVars, blpPoolVars, runtimeVars,
                   stateVars, heartbeatVars, crashVars, createVars>>

\* `self.tokens.lock().await`, with last_refill held
LockTokens(t) ==
    /\ tpc[t] = "elapsed"
    /\ tokHolder = NoTask
    /\ tokHolder' = t
    /\ tpc' = [tpc EXCEPT ![t] = "refill"]
    /\ UNCHANGED <<tokens, last_refill, clock, tnow, granted, lrHolder>>
    /\ UNCHANGED <<queueVars, apiVars, gatewayVars, supervisorVars, processorVars,
                   messageVars, downloadVars, blpPoolVars, runtimeVars,
                   stateVars, heartbeatVars, crashVars, createVars>>

\* both locks held: refill and set last_refill; then take a token and return
\* (the guards are dropped at the return), or drop both guards and sleep
RefillLocked(t) ==
    /\ tpc[t] = "refill"
    /\ LET refilled == new_tokens(tokens, duration_since(tnow[t], last_refill)) IN
        /\ last_refill' = tnow[t]
        /\ IF refilled >= 1
           THEN /\ tokens' = refilled - 1
                /\ granted' = [granted EXCEPT ![clock] = @ + 1]
                /\ tpc' = [tpc EXCEPT ![t] = "idle"]
           ELSE /\ tokens' = refilled
                /\ granted' = granted
                /\ tpc' = [tpc EXCEPT ![t] = "sleep"]
    /\ lrHolder' = NoTask
    /\ tokHolder' = NoTask
    /\ UNCHANGED <<clock, tnow>>
    /\ UNCHANGED <<queueVars, apiVars, gatewayVars, supervisorVars, processorVars,
                   messageVars, downloadVars, blpPoolVars, runtimeVars,
                   stateVars, heartbeatVars, crashVars, createVars>>

\* an instant as seen one second later (instants older than the window all
\* count as its first one: one second already refills the whole bucket)
Earlier(i) == IF i = 0 THEN 0 ELSE i - 1

\* a task between its reading of the clock and its refill
InFlight(t) == tpc[t] \in {"locking", "elapsed", "refill"}

\* One second passes, for ever: when the clock is at the end of the window of
\* instants the window slides instead, every stored instant moving with it.
\* A `now` in flight stays later than the first instant of the window, so the
\* elapsed time a task computes from it is exact or refills the whole bucket.
ClockAdvance ==
    /\ IF clock < MaxClock
       THEN /\ clock' = clock + 1
            /\ UNCHANGED <<last_refill, tnow, granted>>
       ELSE /\ \A t \in Tasks : InFlight(t) => tnow[t] >= 2
            /\ clock' = clock
            /\ last_refill' = Earlier(last_refill)
            /\ tnow' = [t \in Tasks |-> Earlier(tnow[t])]
            /\ granted' = [i \in Instants |-> IF i < MaxClock THEN granted[i + 1] ELSE 0]
    /\ UNCHANGED <<tokens, tpc, queueVars, auxVars>>

\* the step in which acquire() returns to task t
Returns(t) == RefillLocked(t) /\ tpc'[t] = "idle"

NextAcquire ==
    \/ \E t \in Tasks : ReadNow(t)
    \/ \E t \in Tasks : LockLastRefill(t)
    \/ \E t \in Tasks : LockTokens(t)
    \/ \E t \in Tasks : RefillLocked(t)
    \/ \E t \in Tasks : Sleep(t)
    \/ ClockAdvance

SpecAcquire == InitLimiterSpec /\ [][NextAcquire]_vars

\* Tasks are scheduled fairly: a task that can take a step of acquire() takes
\* it (tokio's Mutex hands the lock to its waiters in turn), every task keeps
\* calling acquire(), and time advances.
FairSpecAcquire ==
    /\ SpecAcquire
    /\ \A t \in Tasks :
        /\ WF_vars(ReadNow(t))
        /\ SF_vars(LockLastRefill(t))
        /\ WF_vars(LockTokens(t))
        /\ WF_vars(RefillLocked(t))
        /\ WF_vars(Sleep(t))
    /\ WF_vars(ClockAdvance)

\* ------------------------------------------------- MESSAGE_CREATE (two handlers)
\* the words a message is made of, and the texts considered (up to MaxWords words)
CreateWords == {Mention, <<"b", "l", "p">>, <<"b", "g">>, Unknown}
CreateTexts == UNION {[1..n -> CreateWords] : n \in 0..MaxWords}

RECURSIVE Join(_)
\* message.content: the words separated by one space
Join(words) ==
    IF words = <<>> THEN <<>>
    ELSE IF Len(words) = 1 THEN words[1]
    ELSE words[1] \o <<" ">> \o Join(Tail(words))

\* str::contains
contains(text, pat) ==
    \E i \in 1..Len(text) : i + Len(pat) - 1 <= Len(text) /\ SubSeq(text, i, i + Len(pat) - 1) = pat

\* discord/gateway.rs handle_message: content_lower.contains("blp"), else
\* contains("png"), else return
Gateway_command(words) ==
    LET content_lower == to_lowercase(Join(words)) IN
    IF contains(content_lower, <<"b", "l", "p">>) THEN "blp"
    ELSE IF contains(content_lower, <<"p", "n", "g">>) THEN "png"
    ELSE "none"

\* the command each handle_message finds in the text ("none": it returns Ok)
CreateCommand(r, words) ==
    IF r = "gateway" THEN Gateway_command(words)
    ELSE New_parse_command_args(words).kind

\* a MESSAGE_CREATE event reaches handle_message
CreateReceive ==
    /\ cpc = "handled"
    /\ \E b \in BOOLEAN, m \in BOOLEAN, a \in BOOLEAN, w \in CreateTexts :
        cmsg' = [bot |-> b, mentioned |-> m, words |-> w, attached |-> a]
    /\ cpc' = "received"
    /\ ceffects' = <<>>
    /\ UNCHANGED <<crouter, notCreateVars>>

\* handle_message returns Ok(()) at once: the author is a bot, the bot user is
\* not among the mentions, the text holds no command, or (in the submit
\* function) the message has no attachments
CreateIgnore ==
    /\ cpc = "received"
    /\ \/ cmsg.bot
       \/ ~cmsg.mentioned
       \/ CreateCommand(crouter, cmsg.words) = "none"
       \/ ~cmsg.attached
    /\ cpc' = "handled"
    /\ UNCHANGED <<cmsg, crouter, ceffects, notCreateVars>>

\* the submit path: POST the status message, insert the job, notify the
\* workers; a failed POST or insert leaves through `?`. rembg::handle replies
\* and returns when the background-removal runtime is not available.
CreateSubmit ==
    /\ cpc = "received"
    /\ ~cmsg.bot
    /\ cmsg.mentioned
    /\ CreateCommand(crouter, cmsg.words) # "none"
    /\ cmsg.attached
    /\ \E result \in {"ok", "post_fails", "insert_fails", "unavailable"} :
        /\ result = "unavailable" => CreateCommand(crouter, cmsg.words) = "rembg"
        /\ ceffects' = CASE result = "ok" -> <<"reply", "insert", "notify">>
                         [] result = "post_fails" -> <<>>
                         [] result = "insert_fails" -> <<"reply">>
                         [] result = "unavailable" -> <<"reply">>
    /\ cpc' = "handled"
    /\ UNCHANGED <<cmsg, crouter, notCreateVars>>

InitCreateSpec ==
    /\ pool = "BLP"
    /\ InitQueue
    /\ InitLimiter
    /\ InitApi
    /\ InitGateway
    /\ InitSupervisor
    /\ InitProcessorIdle
    /\ InitMessageIdle
    /\ InitDownloadIdle
    /\ InitBlpPool
    /\ InitRuntime
    /\ InitStateIdle
    /\ InitHeartbeatIdle
    /\ InitCrashIdle
    /\ InitLock
    /\ cmsg = [bot |-> FALSE, mentioned |-> FALSE, words |-> <<>>, attached |-> FALSE]
    /\ crouter \in {"message::handle", "gateway"}
    /\ cpc = "handled"
    /\ ceffects = <<>>

NextCreate ==
    \/ CreateReceive
    \/ CreateIgnore
    \/ CreateSubmit

SpecCreate == InitCreateSpec /\ [][NextCreate]_vars

\* ================================================================= claims

RECURSIVE Grants(_, _)
\* acquire() calls that returned in the window of instants a..b
Grants(a, b) == IF a > b THEN 0 ELSE granted[a] + Grants(a + 1, b)

\* C10: token-bucket bound. In every window of instants a..b (length b - a) at
\* most capacity + rate * (b - a) acquire() calls return, for any number of
\* concurrent callers; in particular at most capacity return at one instant.
C10_TokenBucketBound ==
    \A a \in Instants, b \in Instants :
        a <= b => Grants(a, b) <= max_tokens + refill_rate * (b - a)

Terminal(i) == i \in Ids(jobs) /\ jobs[i].status \in {Completed, Failed}

\* C1: claim is exclusive. Since job i last became pending, at most one claim
\* call has returned it, for every pool and every interleaving of workers.
C1_ClaimExclusive == \A i \in Ids(jobs) : claims[i] <= 1

\* two workers hold two different jobs, each claimed once in its episode
C1_Witness ==
    \E w1 \in Workers, w2 \in Workers :
        /\ w1 # w2
        /\ wpc[w1] = "claimed" /\ wpc[w2] = "claimed"
        /\ wjob[w1] # wjob[w2]
        /\ claims[wjob[w1]] = 1 /\ claims[wjob[w2]] = 1

SweptNow(i) == \E r \in lastSweep' : r.id = i

C3_EveryJobTerminates ==
    \A i \in 1..MaxJobs : (i \in Ids(jobs)) ~> Terminal(i)

\* C4: a job marked failed with retry < MAX_RETRIES is eventually claimed again.
C4_FailedIsRetried ==
    \A i \in 1..MaxJobs :
        (i \in Ids(jobs) /\ jobs[i].status = Failed /\ jobs[i].retry < MAX_RETRIES)
            ~> (i \in Ids(jobs) /\ jobs[i].status = Processing)

\* C5: every job whose status is completed or failed has retry <= MAX_RETRIES.
C5_TerminalRetryBounded ==
    \A i \in Ids(jobs) : Terminal(i) => jobs[i].retry <= MAX_RETRIES

\* a job is terminal with retry = MAX_RETRIES: the sweep reset it for the third
\* time while a worker held it, and that worker marked it afterwards
C5_Witness ==
    \E i \in Ids(jobs) : Terminal(i) /\ jobs[i].retry = MAX_RETRIES

\* C6: a claim returns only a job that was pending with retry < MAX_RETRIES at
\* the instant of the claim, never a pending job with retry >= MAX_RETRIES.
C6_ExhaustedNeverClaimed ==
    lastClaim.id # NoJob =>
        /\ lastClaim.status = Pending
        /\ lastClaim.retry < MAX_RETRIES
        /\ lastClaim.id \notin lastClaim.exhausted

\* a claim returned a job while a pending job with retry >= MAX_RETRIES existed
C6_Witness == lastClaim.id # NoJob /\ lastClaim.exhausted # {}

\* C7: worker_id is present iff status = processing, for every job of every pool.
C7_WorkerIdIffProcessing ==
    \A i \in Ids(jobs) : (jobs[i].worker_id # NoWorker) <=> (jobs[i].status = Processing)

\* C8: FIFO by creation time. When a claim returns job b, no job created before
\* b was claimable at that instant, in every pool.
C8_FifoByCreated == lastClaim.id # NoJob => lastClaim.older = {}

\* C9: a sweep resets every processing job claimed more than the timeout ago to
\* pending, with retry + 1 and no worker_id, in every pool.
C9_StuckRecovery ==
    \A r \in lastSweep :
        /\ jobs[r.id].status = Pending
        /\ jobs[r.id].retry = r.retry + 1
        /\ jobs[r.id].worker_id = NoWorker

\* C11: every HTTP send to the chat platform is preceded by an acquire() of the
\* shared limiter that returned after the caller's previous send.
C11_AcquireBeforeSend == lastSend.op # NoOp => lastSend.acquired

C13_InvalidSessionClears ==
    lastDone.op = "InvalidSession" =>
        /\ session_id = NoSession /\ sequence = NoSeq
        /\ bot_state = DiscordStateDefault
        /\ lastEvent = "invalid_session"
        /\ gpc = "exited"

\* C14: the persisted sequence is >= s when a frame carrying s is dispatched,
\* and >= the last s received when the next outbound frame is sent.
C14_PersistBeforeDispatch ==
    /\ (gpc = "dispatch" /\ frame.s # NoSeq) => bot_state.sequence >= frame.s
    /\ (lastOut.op # "none" /\ lastS # NoSeq) => bot_state.sequence >= lastS

\* C15: a session that ended with a transport error does not end the process
\* (an outer loop is about to reconnect).
C15_TransportErrorReconnects == ended = "error" => gpc # "exited"

C17_DefaultThreeWorkers == (pool_exists /\ ~resized) => max_workers = 3

\* C18: once more workers run than max_workers allows, the surplus workers
\* eventually exit.
C18_ShrinkEffective ==
    (Cardinality(Running) > max_workers) ~> (Cardinality(Running) <= max_workers)

\* C19: whatever attachments fail to download or to convert, the processor
\* ends with Ok, the result sent, the job completed with retry unchanged, and
\* one product per attachment: <stem>.error.txt for each failed one.
C19_AttachmentErrorsCaptured ==
    ppc = "done" =>
        /\ returned = "ok" /\ sent
        /\ pjob.status = Completed /\ pjob.retry = 0
        /\ Len(products) = Len(work)
        /\ \A i \in 1..Len(work) :
            IF outcome[i] = "ok" THEN products[i].kind = "file"
            ELSE /\ products[i].kind = "error"
                 /\ products[i].name = file_stem(work[i].filename) \o ErrorTxt

\* C20: ensure_unique_filenames keeps the length, the order and the id and url
\* of every attachment, and the filenames it returns are pairwise distinct.
C20_UniqueFilenames ==
    (TaskProcessorPool(pool) /\ ppc # "claimed") =>
        /\ Len(work) = Len(att)
        /\ \A i \in 1..Len(att) : work[i].id = att[i].id /\ work[i].url = att[i].url
        /\ \A i \in 1..Len(work), j \in 1..Len(work) :
            i # j => work[i].filename # work[j].filename

\* C21: when rembg is unavailable, a rembg/bg submit with attachments inserts
\* no job, notifies no worker and posts exactly one reply saying that
\* background removal is currently unavailable.
C21_UnavailableReply ==
    (mpc = "ok" /\ args.kind = "rembg" /\ attached /\ ~available)
        => inserted = <<>> /\ events = <<"unavailable">>

\* the kind the specification gives each leading verb
VerbKind(word) ==
    CASE word = <<"b", "l", "p">> -> "blp"
      [] word = <<"p", "n", "g">> -> "png"
      [] word = <<"r", "e", "m", "b", "g">> -> "rembg"
      [] word = <<"b", "g">> -> "rembg"
      [] word = <<"i", "c", "o", "n">> -> "icon"
      [] OTHER -> "none"

\* a bare number that is outside the range of the parameter of the verb
OutOfRange(kind, t) ==
    /\ parse_u16(t) # ParseError
    /\ kind = "blp" => ~(parse_u16(t) >= 1 /\ parse_u16(t) <= 100)
    /\ kind = "rembg" => ~(parse_u16(t) >= 0 /\ parse_u16(t) <= 255)

\* C22: the parsed quality is in 1..100 and the parsed threshold in 0..255;
\* numeric tokens outside the range of the verb's parameter leave the
\* defaults (quality 80, threshold 160) unchanged, and `rembg 999` gives
\* threshold 160 and mask = false.
C22_ParserRanges ==
    (mpc = "parsed" /\ args.kind # "none") =>
        /\ args.quality >= 1 /\ args.quality <= 100
        /\ args.threshold >= 0 /\ args.threshold <= 255
        /\ ( /\ VerbKind(content[2]) # "none"
             /\ \A i \in 3..Len(content) : OutOfRange(args.kind, content[i]) )
            => args.quality = 80 /\ args.threshold = 160
        /\ content = <<Mention, <<"r", "e", "m", "b", "g">>, <<"9", "9", "9">>>>
            => args.threshold = 160 /\ ~args.mask

\* the submit functions of each kind
KindHandlers(kind) ==
    CASE kind = "blp" -> {"blp::handle", "handle_blp_conversion"}
      [] kind = "png" -> {"blp::handle", "handle_blp_conversion"}
      [] kind = "rembg" -> {"rembg::handle", "handle_rembg_pipeline"}
      [] kind = "icon" -> {"icon::handle"}
      [] OTHER -> {}

\* C23: each of the verbs blp, png, rembg, bg and icon gives a CommandArgs of
\* the matching kind, an inline number attached to the verb is accepted
\* (blp80, rembg128), any other leading word gives no command, unknown flag
\* tokens change no field, and the router calls the submit of the kind.
C23_VerbsAndDispatch ==
    /\ (mpc = "parsed" /\ VerbKind(content[2]) # "none")
        => args.kind = VerbKind(content[2])
    /\ (mpc = "parsed" /\ content = <<Mention, <<"b", "l", "p", "8", "0">>>>)
        => args.kind = "blp" /\ args.quality = 80
    /\ (mpc = "parsed" /\ content = <<Mention, <<"r", "e", "m", "b", "g", "1", "2", "8">>>>)
        => args.kind = "rembg" /\ args.threshold = 128
    /\ (mpc = "parsed" /\ content[2] = <<"f", "o", "o">>) => args.kind = "none"
    /\ (mpc = "parsed" /\ \A i \in 3..Len(content) : content[i] = Unknown)
        => args = parse_command_args(router, SubSeq(content, 1, 2))
    /\ (mpc = "entered" /\ content # <<>>) => handler \in KindHandlers(args.kind)

\* C24: a submit of a message with attachments (rembg being available) posts
\* one status message, then inserts exactly one job with status pending,
\* retry 0 and reply set, then notifies the pool; after a failed post or
\* insert nothing is inserted and no notify is issued.
C24_SubmitOrder ==
    /\ ( /\ mpc = "ok"
         /\ handler \in {"blp::handle", "rembg::handle", "icon::handle"}
         /\ attached
         /\ ChecksAvailable(handler) => available )
        => /\ events = <<"status", "insert", "notify">>
           /\ Len(inserted) = 1
           /\ inserted[1].status = Pending
           /\ inserted[1].retry = 0
           /\ inserted[1].reply
    /\ mpc = "err" => inserted = <<>> /\ \A i \in 1..Len(events) : events[i] # "notify"

\* C25: a job is marked completed only after the final PATCH (or send) of its
\* result files has succeeded, and whenever that send fails the job is marked
\* failed with its retry count incremented by 1.
C25_CompletedAfterSend ==
    [][ /\ \A i \in Ids(jobs) :
            (jobs[i].status # Completed /\ jobs'[i].status = Completed /\ jobs[i].attachments)
                => \E w \in Workers : wjob[w] = i /\ wpc[w] = "sent"
        /\ \A w \in Workers :
            (TaskProcessorPool(pool) /\ wpc[w] = "claimed" /\ jobs[wjob[w]].reply
                /\ wpc'[w] = "wait")
                => /\ jobs'[wjob[w]].status = Failed
                   /\ jobs'[wjob[w]].retry = jobs[wjob[w]].retry + 1 ]_vars

C27_DownloadAll ==
    /\ Cardinality({i \in 1..Len(ordered) : ordered[i].state = "downloading"}) <= 4
    /\ Len(out) <= Len(metas)
    /\ \A i \in 1..Len(out) :
        /\ out[i].meta = metas[i]
        /\ out[i].error = ordered[i].error
    /\ (dpc = "returned" /\ metas # <<>>) => Len(out) = Len(metas)

\* a batch of more attachments than permits has been returned, with a failed
\* download in the middle
C27_Witness ==
    /\ dpc = "returned"
    /\ Len(out) > 4
    /\ metas[1] # metas[2]
    /\ ~out[1].error /\ out[2].error /\ ~out[3].error

\* C28: no lost wake-up: there is no reachable state in which a claimable job
\* exists, submit has finished, every worker of the pool is suspended on the
\* notifier and no wake-up is pending.
C28_NoLostWakeup ==
    ~( /\ bpending > 0
       /\ bsubmit = "idle"
       /\ \A w \in Workers : bworker[w] = "parked" )

\* C29: when the processor returns an error the worker logs it and calls
\* process_next again without waiting for a notification.
C29_ErrorLoops ==
    [][\A k \in TaskIds : (task[k] = "err" /\ ~shutdown') => task'[k] \in {"err", "poll"}]_vars

\* C30: the workers counter equals the number of worker tasks that were
\* spawned and have not yet exited, on every exit path of a task, and it
\* never goes below 0.
C30_WorkersCountsTasks ==
    /\ workers = Cardinality({k \in TaskIds : task[k] # "none"})
    /\ workers >= 0

\* C31: after a READY dispatch carrying session_id S and user id U has been
\* handled, the persisted bot_state document holds session_id = S and
\* bot_user_id = U.
C31_ReadyPersisted ==
    [][(spc = "ready" /\ spc' = "up")
        => /\ stored'.session_id = readyEvent.session_id
           /\ stored'.bot_user_id = readyEvent.user]_vars

\* C35: saving the session state leaves the configured rate in the store
\* unchanged, so the next start builds its limiter with that rate.
C35_RateKept ==
    /\ stored.rate_limit = configured
    /\ (spc # "down" /\ configured # NoRate) => rate = configured

\* C32: every heartbeat sent carries the sequence number of the most recent
\* inbound frame that had one, and the persisted heartbeat counter increases
\* by exactly 1 for each heartbeat sent.
C32_HeartbeatCount ==
    /\ hpc = "log" => hlast = hrecv /\ hcount = hsent - 1
    /\ hpc = "select" => hcount = hsent

\* C33: every transport error ends the gateway session: a failed read or a
\* failed send makes run_gateway return, and after a failed heartbeat send the
\* gateway never goes on reading frames of the same connection outside the
\* heartbeat loop.
C33_TransportErrorEnds ==
    [][ /\ (gpc = "inner" /\ gpc' # "inner") => gpc' \in {"update", "exited"}
        /\ (ended' = "error" /\ ended # "error") => gpc' = "exited" ]_vars


\* C34: a crash between the insert of a job and its first PATCH leaves the job
\* claimable: a job that is processing after the restart, held by no worker and
\* without a status message yet, becomes pending again
C34_CrashClaimable ==
    \A i \in 1..MaxJobs :
        (crashed /\ Orphaned(i) /\ ~jobs[i].reply) ~> (i \in Ids(jobs) /\ jobs[i].status = Pending)


\* C36: the sweep touches only stuck jobs: it changes no job that is not
\* processing and no processing job started within the timeout; on a job it
\* changes only status, worker_id and retry differ; the count it returns is
\* the number of jobs it changed
Changed(i) == jobs'[i] # jobs[i]

C36_SweepFrame ==
    [][(pool = "BLP" /\ Sweep) =>
        /\ Len(jobs') = Len(jobs)
        /\ \A i \in Ids(jobs) :
            /\ (jobs[i].status # Processing \/ jobs[i].started_at <= SweepTimeout)
                  => ~Changed(i)
            /\ Changed(i) =>
                  [jobs'[i] EXCEPT !.status = jobs[i].status,
                                   !.worker_id = jobs[i].worker_id,
                                   !.retry = jobs[i].retry] = jobs[i]
        /\ Blp_reset_stuck_items_count(jobs, SweepTimeout)
              = Cardinality({i \in Ids(jobs) : Changed(i)})]_vars

\* a sweep has just reset one job and left alone another that is processing
\* within the timeout
C36_Witness ==
    /\ pool = "BLP"
    /\ lastSweep # {}
    /\ \E i, k \in Ids(jobs) :
        /\ jobs[i].status = Pending /\ jobs[i].retry = 1 /\ (\E r \in lastSweep : r.id = i)
        /\ jobs[k].status = Processing /\ jobs[k].started_at <= SweepTimeout


\* C37: a spurious wake-up is harmless: a worker that runs its claim while no
\* job of the pool is pending with retries left gets nothing, changes no job,
\* sends no message and goes back to waiting on the notifier
NoneClaimable == \A i \in Ids(jobs) : ~(jobs[i].status = Pending /\ jobs[i].retry < MAX_RETRIES)

C37_SpuriousWake ==
    [][\A w \in Workers :
        (wpc[w] = "loop" /\ NoneClaimable /\ wpc'[w] # "loop") =>
            /\ jobs' = jobs
            /\ wpc'[w] = "wait"
            /\ wjob'[w] = NoJob]_vars

\* every job of a TaskProcessor pool is completed; one worker has been woken
\* and is about to claim, the other went back to waiting
C37_Witness ==
    /\ pool = "REMBG"
    /\ jobs # <<>>
    /\ \A i \in Ids(jobs) : jobs[i].status = Completed
    /\ \E w, v \in Workers : wpc[w] = "loop" /\ wpc[v] = "wait"


\* C38: for every interleaving of concurrent acquire() calls the token count
\* stays within 0..capacity and last_refill never moves backwards (no interval
\* of elapsed time is credited twice)
C38_RefillMonotone ==
    [][/\ tokens' \in 0..max_tokens
       /\ last_refill' >= last_refill]_vars


\* C39: acquire() is deadlock-free and eventually returns: under fair
\* scheduling and advancing time every task that calls acquire() obtains a
\* token and returns (a task that keeps calling returns again and again)
C39_AcquireReturns == \A t \in Tasks : []<><<Returns(t)>>_vars


\* C40: a MESSAGE_CREATE whose author is a bot, or that does not mention the
\* bot user, or whose text has no recognised leading verb creates no work: no
\* job is inserted, no worker is notified and no reply is posted
LeadingVerb(words) ==
    LET rest == SelectSeq(words, LAMBDA t : t # Mention) IN
    rest # <<>> /\ rest[1] \in {<<"b", "l", "p">>, <<"p", "n", "g">>,
                                <<"r", "e", "m", "b", "g">>, <<"b", "g">>}

C40_NoWorkUnlessCommand ==
    (cpc = "handled" /\ (cmsg.bot \/ ~cmsg.mentioned \/ ~LeadingVerb(cmsg.words)))
        => ceffects = <<>>

====
